---- MODULE Spec2Model ----
(***************************************************************************)
(* Verification model of carefree-pyo3 (cfpyo3_rs_core).                   *)
(*                                                                         *)
(* Part 1: the random-access fetch planners of io/temporal/mem.rs          *)
(* (row_contiguous, column_contiguous, async_column_contiguous) and their  *)
(* single-query wrappers, as pure operators applied by the actions of      *)
(* Spec to stores and queries drawn in Init.                               *)
(* Part 2: the batched planners (one rayon task per (batch row, channel)), *)
(* interleaved day by day, under SpecBatch.                                *)
(* Part 3: the RedisClient connection pool, under SpecRedis.               *)
(*                                                                         *)
(* All program indices are 0-based as in the source; sequences are the     *)
(* 1-based TLA+ sequences and are read through At / Slice.                 *)
(***************************************************************************)
EXTENDS Integers, Sequences, FiniteSets, TLC

\* ------------------------------------------------------------------ bounds
MaxDays == 3        \* days in a store
MaxTicks == 2       \* num_ticks_per_day ranges over 1..MaxTicks
MaxSym == 2         \* symbols are 0..MaxSym-1
MaxCols == 2        \* requested columns per query
NumGroups == 2      \* multiplier of the grouped (feature-contiguous) store

\* ------------------------------------------------------- values and options
None == -1          \* Option::None of an Option<usize> / Option<i64>
NaN == -2           \* T::nan()
Zero == 0           \* T::zero(), the initial content of `flattened`

NoOffsets == [some |-> FALSE, column_offset |-> 0, channel_pad_start |-> 0, channel_pad_end |-> 0]

At(s, i) == s[i + 1]
Slice(s, a, b) == SubSeq(s, a + 1, b)
Symbols == 0 .. (MaxSym - 1)

RECURSIVE SeqSum(_)
SeqSum(s) == IF s = <<>> THEN 0 ELSE Head(s) + SeqSum(Tail(s))

RECURSIVE Flatten(_)
Flatten(ss) == IF ss = <<>> THEN <<>> ELSE Head(ss) \o Flatten(Tail(ss))

RECURSIVE SortedSeq(_)
SortedSeq(S) ==
    IF S = {} THEN <<>>
    ELSE LET m == CHOOSE x \in S : \A y \in S : x <= y
         IN <<m>> \o SortedSeq(S \ {m})

\* ------------------------------------------------------------ toolkit/array
\* slice::binary_search(..).unwrap_or_else(|x| x) on a strictly increasing
\* array: the index of `value` when present, else its insertion point.
searchsorted(arr, value) == Cardinality({k \in 1 .. Len(arr) : arr[k] < value})

batch_searchsorted(arr, values) == [n \in 1 .. Len(values) |-> searchsorted(arr, values[n])]

\* UnsafeSlice::slice: a view [base, base + len) of the parent buffer.
UnsafeSlice_slice(parent, start, end) == [base |-> parent.base + start, len |-> end - start]

\* UnsafeSlice::copy_from_slice(i, src): `self.slice[i]` is bounds-checked
\* against the view, ptr::copy_nonoverlapping of src.len() cells is not.
\* A copy that leaves the allocation is undefined behaviour ("UB").
copy_from_slice_unchecked(st, slice, i, src) ==
    IF st.status # "Ok" THEN st
    ELSE LET lo == slice.base + i
             hi == lo + Len(src)
         IN IF hi > Len(st.flattened) THEN [st EXCEPT !.status = "UB"]
            ELSE [st EXCEPT
                    !.flattened = SubSeq(st.flattened, 1, lo) \o src
                                    \o SubSeq(st.flattened, hi + 1, Len(st.flattened)),
                    !.written = st.written \cup (lo .. (hi - 1))]

\* A variant without the bounds check on the start index.
copy_from_slice_no_bounds_check(st, slice, i, src) == copy_from_slice_unchecked(st, slice, i, src)

\* UnsafeSlice::copy_from_slice: self.slice[i] is bounds-checked, the copy is not.
copy_from_slice(st, slice, i, src) ==
    IF st.status # "Ok" THEN st
    ELSE IF i >= slice.len THEN [st EXCEPT !.status = "Panic"]
    ELSE copy_from_slice_unchecked(st, slice, i, src)

\* ------------------------------------------------------- io/temporal/mem.rs
FetcherArgs(c, start_idx, end_idx, date_idx, date_col_idx, date_start_idx, time_start_idx, time_end_idx, num_ticks_per_day, data_len) ==
    [c |-> c, start_idx |-> start_idx, end_idx |-> end_idx, date_idx |-> date_idx,
     date_col_idx |-> date_col_idx, date_start_idx |-> date_start_idx,
     time_start_idx |-> time_start_idx, time_end_idx |-> time_end_idx,
     num_ticks_per_day |-> num_ticks_per_day, data_len |-> data_len]

\* columns_getter of the wrappers: compact_columns.slice(s![start..end])
columns_getter(compact_columns, start_idx, end_idx) == Slice(compact_columns, start_idx, end_idx)

\* CachedGetter::get: the memoised batch_searchsorted, keyed by the day's
\* position i in the query; self.1 are the getter's own columns.
CachedGetter_get(cache, getter_columns, i, date_columns) ==
    IF i \in DOMAIN cache
    THEN [indices |-> cache[i], cache |-> cache]
    ELSE LET indices == batch_searchsorted(date_columns, getter_columns)
         IN [indices |-> indices, cache |-> (i :> indices) @@ cache]

\* --------------------------------------------------------------- fetchers
\* A fetch result: status "Ok" with the data, "Err" (a Result::Err) or
\* "Panic" (a slice out of range).
FetchOk(data) == [status |-> "Ok", data |-> data]
FetchErr == [status |-> "Err", data |-> <<>>]
FetchPanic == [status |-> "Panic", data |-> <<>>]

\* SHMFetcher::fetch: the borrow values[args.start_idx .. args.end_idx].
SHMFetcher_fetch(compact_data, args) ==
    IF args.start_idx < 0 \/ args.start_idx > args.end_idx \/ args.end_idx > Len(compact_data)
    THEN FetchPanic
    ELSE FetchOk(Slice(compact_data, args.start_idx, args.end_idx))

\* SlicedSHMFetcher::fetch: the buffer of args.date_idx, sliced by
\* args.time_start_idx .. args.time_end_idx, widened by the multiplier.
SlicedSHMFetcher_fetch(sliced_data, multiplier, args) ==
    LET m == IF multiplier = None THEN 1 ELSE multiplier
        lo == args.time_start_idx * m
        hi == args.time_end_idx * m
    IN IF args.date_idx < 0 \/ args.date_idx >= Len(sliced_data) THEN FetchPanic
       ELSE LET day == At(sliced_data, args.date_idx)
            IN IF lo < 0 \/ lo > hi \/ hi > Len(day) THEN FetchPanic
               ELSE FetchOk(Slice(day, lo, hi))

\* A fetcher that does not batch and whose fetch returns a Result: the data
\* of the compact array, or Err for the cells (date_idx, date_col_idx) of
\* `fails` (e.g. a transport error of a remote store).
FallibleFetcher_fetch(compact_data, fails, args) ==
    IF <<args.date_idx, args.date_col_idx>> \in fails THEN FetchErr
    ELSE SHMFetcher_fetch(compact_data, args)

\* Fetcher::can_batch_fetch: false by default, true for RedisFetcher and for
\* the scripted fetcher below.
can_batch_fetch(data_getter) == data_getter.kind \in {"redis", "scripted"}

\* RedisFetcher::batch_fetch over a server that holds, per channel c and
\* day, the day's array under redis_keys[c][date_idx]: panics on a missing
\* c and on a mixed batch; a transport error on a key of `fails`.
RedisFetcher_batch_fetch(data_getter, args) ==
    LET c == args[1].c
        date_idx == args[1].date_idx
    IN IF c = None THEN [status |-> "Panic", data |-> <<>>]
       ELSE IF \E n \in 1 .. Len(args) : args[n].c # c \/ args[n].date_idx # date_idx
       THEN [status |-> "Panic", data |-> <<>>]
       ELSE IF <<c, date_idx>> \in data_getter.fails THEN [status |-> "Err", data |-> <<>>]
       ELSE LET rs == [n \in 1 .. Len(args) |->
                          SlicedSHMFetcher_fetch(At(data_getter.data, c), None, args[n])]
            IN IF \E n \in 1 .. Len(rs) : rs[n].status # "Ok"
               THEN [status |-> "Err", data |-> <<>>]
               ELSE [status |-> "Ok", data |-> [n \in 1 .. Len(rs) |-> rs[n].data]]

\* Dispatch of data_getter.batch_fetch: RedisFetcher's, the scripted
\* fetcher's (an implementor of the trait that returns the arrays it was
\* built with, or Err when built to fail), and the trait's own body, which is
\* unreachable!().
Fetcher_batch_fetch(data_getter, args) ==
    CASE data_getter.kind = "redis" -> RedisFetcher_batch_fetch(data_getter, args)
      [] data_getter.kind = "scripted" ->
            IF data_getter.fails = {} THEN FetchOk(data_getter.data) ELSE FetchErr
      [] OTHER -> FetchPanic

\* Fetcher::fetch, the body of the trait. In
\*     rv.pop().ok_or(Err(MemError::new("empty result"))?)
\* the argument of ok_or is evaluated before ok_or is called, and it is
\* `Err(..)?`, which returns from fetch: once batch_fetch has returned Ok the
\* function returns the "empty result" error, whatever rv holds.
Fetcher_default_fetch(data_getter, args) ==
    IF can_batch_fetch(data_getter)
    THEN LET rv == Fetcher_batch_fetch(data_getter, <<args>>)
         IN IF rv.status # "Ok"
            THEN [status |-> rv.status, err |-> "batch_fetch", data |-> <<>>]
            ELSE [status |-> "Err", err |-> "empty result", data |-> <<>>]
    ELSE [status |-> "Panic", err |-> "unreachable", data |-> <<>>]

\* RedisGroupedFetcher::fetch over a server that holds the day's
\* feature-contiguous array under redis_keys[date_idx]: the range
\* [time_start_idx, time_end_idx) widened by the multiplier; Err on a
\* transport error (a day of `fails`) and on a reply of another length.
RedisGroupedFetcher_fetch(data_getter, args) ==
    IF args.date_idx \in data_getter.fails THEN FetchErr
    ELSE LET r == SlicedSHMFetcher_fetch(data_getter.data, data_getter.multiplier, args)
         IN IF r.status = "Ok" THEN r ELSE FetchErr

\* Dispatch of data_getter.fetch over the fetchers of the model; a fetcher
\* that does not define fetch has the trait's.
Fetcher_fetch(data_getter, args) ==
    CASE data_getter.kind = "shm" -> SHMFetcher_fetch(data_getter.data, args)
      [] data_getter.kind = "sliced" ->
            SlicedSHMFetcher_fetch(data_getter.data, data_getter.multiplier, args)
      [] data_getter.kind = "fallible" ->
            FallibleFetcher_fetch(data_getter.data, data_getter.fails, args)
      [] data_getter.kind = "redis_grouped" -> RedisGroupedFetcher_fetch(data_getter, args)
      [] OTHER -> Fetcher_default_fetch(data_getter, args)

SHMFetcher_new(compact_data) ==
    [kind |-> "shm", data |-> compact_data, multiplier |-> None, fails |-> {}]
SlicedSHMFetcher_new(sliced_data, multiplier) ==
    [kind |-> "sliced", data |-> sliced_data, multiplier |-> multiplier, fails |-> {}]
FallibleFetcher_new(compact_data, fails) ==
    [kind |-> "fallible", data |-> compact_data, multiplier |-> None, fails |-> fails]
RedisFetcher_new(keyed_data, fails) ==
    [kind |-> "redis", data |-> keyed_data, multiplier |-> None, fails |-> fails]
RedisGroupedFetcher_new(grouped_data, multiplier, fails) ==
    [kind |-> "redis_grouped", data |-> grouped_data, multiplier |-> multiplier, fails |-> fails]
ScriptedFetcher_new(arrays, fails) ==
    [kind |-> "scripted", data |-> arrays, multiplier |-> None, fails |-> fails]

\* ----------------------------------------------------- column_contiguous
\* The closure fill_data of column_contiguous.
RECURSIVE fill_data_ticks(_, _, _, _, _, _, _)
fill_data_ticks(st, slice, f_start_idx, data_slice, multiplier, offsets, t) ==
    LET time_len == Len(data_slice) \div multiplier
        total_multiplier == multiplier + offsets.channel_pad_start + offsets.channel_pad_end
        t_start == t * total_multiplier + offsets.channel_pad_start
        ft_start == f_start_idx + t_start
        dt_start == t * multiplier
        dt_end == (t + 1) * multiplier
    IN IF t >= time_len \/ st.status # "Ok" THEN st
       ELSE fill_data_ticks(copy_from_slice(st, slice, ft_start, Slice(data_slice, dt_start, dt_end)),
                            slice, f_start_idx, data_slice, multiplier, offsets, t + 1)

fill_data(st, slice, f_start_idx, data_slice, multiplier, offsets) ==
    IF st.status # "Ok" THEN st
    ELSE IF ~offsets.some THEN copy_from_slice(st, slice, f_start_idx, data_slice)
    ELSE IF multiplier = None THEN [st EXCEPT !.status = "Panic"]
    ELSE fill_data_ticks(st, slice, f_start_idx, data_slice, multiplier, offsets, 0)

\* total_multiplier = multiplier.map(|m| m + channel_pad_start + channel_pad_end)
total_multiplier_of(multiplier, offsets) ==
    IF multiplier = None THEN None
    ELSE multiplier + (IF offsets.some THEN offsets.channel_pad_start + offsets.channel_pad_end ELSE 0)

\* A variant that starts every day at its first tick.
i_time_start_idx_whole_day(i, time_start_idx, num_ticks_per_day) == 0

\* The day's time window [i_time_start_idx, i_time_end_idx).
i_time_start_idx_of(i, time_start_idx, num_ticks_per_day) ==
    IF i = 0 THEN time_start_idx % num_ticks_per_day ELSE 0

\* A variant that ends every day at its last tick.
i_time_end_idx_whole_day(i, num_days, time_end_idx, num_ticks_per_day) == num_ticks_per_day

i_time_end_idx_of(i, num_days, time_end_idx, num_ticks_per_day) ==
    LET e == IF i = num_days - 1 THEN (time_end_idx + 1) % num_ticks_per_day
             ELSE num_ticks_per_day
    IN IF e = 0 THEN num_ticks_per_day ELSE e

\* The write position of column j in the day at time offset i_time_offset.
f_start_idx_of(j, column_offset, datetime_len, i_time_offset, total_multiplier) ==
    LET f == (j + column_offset) * datetime_len + i_time_offset
    IN IF total_multiplier # None THEN f * total_multiplier ELSE f

\* A variant whose per-day window forgets the column's offset in the day.
make_args_no_col_offset(c, date_start_idx, corrected_idx, date_idx, i_time_start_idx, i_time_end_idx, num_ticks_per_day) ==
    FetcherArgs(c, date_start_idx + i_time_start_idx, date_start_idx + i_time_end_idx,
                date_idx, corrected_idx, date_start_idx,
                i_time_start_idx, i_time_end_idx,
                num_ticks_per_day, i_time_end_idx - i_time_start_idx)

\* A variant that leaves the channel out of the FetcherArgs.
make_args_without_c(c, date_start_idx, corrected_idx, date_idx, i_time_start_idx, i_time_end_idx, num_ticks_per_day) ==
    LET col_offset == corrected_idx * num_ticks_per_day
    IN FetcherArgs(None, date_start_idx + i_time_start_idx, date_start_idx + i_time_end_idx,
                   date_idx, corrected_idx, date_start_idx,
                   col_offset + i_time_start_idx, col_offset + i_time_end_idx,
                   num_ticks_per_day, i_time_end_idx - i_time_start_idx)

\* The FetcherArgs of a present column.
make_args(c, date_start_idx, corrected_idx, date_idx, i_time_start_idx, i_time_end_idx, num_ticks_per_day) ==
    LET col_offset == corrected_idx * num_ticks_per_day
    IN FetcherArgs(c, date_start_idx + i_time_start_idx, date_start_idx + i_time_end_idx,
                   date_idx, corrected_idx, date_start_idx,
                   col_offset + i_time_start_idx, col_offset + i_time_end_idx,
                   num_ticks_per_day, i_time_end_idx - i_time_start_idx)

\* The state a planner call threads through its loops.
PlanState(flattened, cache) ==
    [status |-> "Ok", err |-> "", flattened |-> flattened, written |-> {},
     emitted |-> <<>>, batches |-> <<>>, fills |-> <<>>, cache |-> cache,
     reads |-> <<>>, tasks |-> <<>>, f_start_indices |-> <<>>, task_js |-> <<>>,
     i_time_offset |-> 0, columns_offset |-> 0]

Fill(kind, i, j, at, len) == [kind |-> kind, i |-> i, j |-> j, at |-> at, len |-> len]

\* A variant that skips the continuity check.
preamble_unchecked(q, s) ==
    LET time_start_idx == searchsorted(s.full_index, q.datetime_start)
        time_end_idx == time_start_idx + q.datetime_len - 1
    IN IF time_end_idx < 0 \/ time_end_idx >= Len(s.full_index)
       THEN [status |-> "Panic", err |-> "", time_start_idx |-> time_start_idx, time_end_idx |-> time_end_idx]
       ELSE [status |-> "Ok", err |-> "", time_start_idx |-> time_start_idx, time_end_idx |-> time_end_idx]

\* The preamble of the planners: the index search and the continuity check.
\* `status` is "Panic" when full_index[time_end_idx] is out of bounds.
preamble(q, s) ==
    LET time_start_idx == searchsorted(s.full_index, q.datetime_start)
        time_end_idx == time_start_idx + q.datetime_len - 1
    IN IF time_end_idx < 0 \/ time_end_idx >= Len(s.full_index)
       THEN [status |-> "Panic", err |-> "", time_start_idx |-> time_start_idx, time_end_idx |-> time_end_idx]
       ELSE IF At(s.full_index, time_end_idx) # q.datetime_end
       THEN [status |-> "Err", err |-> "IndexDiscontinuous",
             time_start_idx |-> time_start_idx, time_end_idx |-> time_end_idx]
       ELSE [status |-> "Ok", err |-> "", time_start_idx |-> time_start_idx, time_end_idx |-> time_end_idx]

\* What column_contiguous computes between the continuity test and the day loop.
context(q, s, pre, data_getter, slice, getter_columns) ==
    LET start_date_idx == At(s.time_idx_to_date_idx, pre.time_start_idx)
        end_date_idx == At(s.time_idx_to_date_idx, pre.time_end_idx)
        unique_date_idxs == [n \in 1 .. (end_date_idx - start_date_idx + 1) |-> start_date_idx + n - 1]
        columns_per_day == [n \in 1 .. Len(unique_date_idxs) |->
                               columns_getter(s.compact_columns,
                                              At(s.date_columns_offset, unique_date_idxs[n]),
                                              At(s.date_columns_offset, unique_date_idxs[n] + 1))]
    IN [c |-> q.c, datetime_len |-> q.datetime_len, columns |-> q.columns,
        num_ticks_per_day |-> s.num_ticks_per_day,
        time_start_idx |-> pre.time_start_idx, time_end_idx |-> pre.time_end_idx,
        start_idx |-> At(s.date_columns_offset, start_date_idx) * s.num_ticks_per_day,
        unique_date_idxs |-> unique_date_idxs, columns_per_day |-> columns_per_day,
        multiplier |-> q.multiplier, offsets |-> q.offsets,
        column_offset |-> IF q.offsets.some THEN q.offsets.column_offset ELSE 0,
        total_multiplier |-> total_multiplier_of(q.multiplier, q.offsets),
        data_getter |-> data_getter, slice |-> slice, getter_columns |-> getter_columns]

\* One iteration of the inner loop of column_contiguous: column j of day i.
column_step(ctx, day, st, j) ==
    LET idx == At(day.i_rows_idx, j)
        corrected_idx == IF idx >= day.num_columns THEN 0 ELSE idx
        date_start_idx == day.i_start_idx + idx * ctx.num_ticks_per_day
        f_start_idx == f_start_idx_of(j, ctx.column_offset, ctx.datetime_len,
                                      st.i_time_offset, ctx.total_multiplier)
    IN IF corrected_idx >= day.num_columns THEN [st EXCEPT !.status = "Panic"]
       ELSE IF At(day.date_columns, corrected_idx) = At(ctx.columns, j)
       THEN LET args == make_args(ctx.c, date_start_idx, corrected_idx,
                                  At(ctx.unique_date_idxs, day.i),
                                  day.i_time_start_idx, day.i_time_end_idx,
                                  ctx.num_ticks_per_day)
            IN IF can_batch_fetch(ctx.data_getter)
               THEN [st EXCEPT !.tasks = Append(@, args),
                               !.f_start_indices = Append(@, f_start_idx),
                               !.task_js = Append(@, j),
                               !.emitted = Append(@, args)]
               ELSE LET r == Fetcher_fetch(ctx.data_getter, args)
                        st1 == [st EXCEPT !.emitted = Append(@, args)]
                    IN IF r.status = "Ok"
                       THEN fill_data([st1 EXCEPT !.fills = Append(@, Fill("data", day.i, j, f_start_idx, Len(r.data)))],
                                      ctx.slice, f_start_idx, r.data, ctx.multiplier, ctx.offsets)
                       ELSE [st1 EXCEPT !.status = r.status,
                                        !.err = IF r.status = "Err" THEN "Fetch" ELSE ""]
       ELSE LET nan_len == (day.i_time_end_idx - day.i_time_start_idx)
                             * (IF ctx.multiplier # None THEN ctx.multiplier ELSE 1)
            IN fill_data([st EXCEPT !.fills = Append(@, Fill("nan", day.i, j, f_start_idx, nan_len))],
                         ctx.slice, f_start_idx, [n \in 1 .. nan_len |-> NaN],
                         ctx.multiplier, ctx.offsets)

RECURSIVE column_loop(_, _, _, _)
column_loop(ctx, day, st, j) ==
    IF st.status # "Ok" \/ j >= Len(ctx.columns) \/ j >= Len(day.i_rows_idx) THEN st
    ELSE column_loop(ctx, day, column_step(ctx, day, st, j), j + 1)

\* The batch stage of a day: one batch_fetch for the day's tasks.
RECURSIVE fill_batch(_, _, _, _, _)
fill_batch(ctx, i, st, batch_data, n) ==
    IF st.status # "Ok" \/ n > Len(batch_data) \/ n > Len(st.f_start_indices) THEN st
    ELSE fill_batch(ctx, i,
                    fill_data([st EXCEPT !.fills = Append(@, Fill("data", i, st.task_js[n], st.f_start_indices[n], Len(batch_data[n])))],
                              ctx.slice, st.f_start_indices[n], batch_data[n],
                              ctx.multiplier, ctx.offsets),
                    batch_data, n + 1)

batch_stage(ctx, i, st) ==
    IF st.status # "Ok" \/ st.tasks = <<>> THEN st
    ELSE LET r == RedisFetcher_batch_fetch(ctx.data_getter, st.tasks)
             st1 == [st EXCEPT !.batches = Append(@, st.tasks)]
         IN IF r.status = "Ok" THEN fill_batch(ctx, i, st1, r.data, 1)
            ELSE [st1 EXCEPT !.status = r.status,
                             !.err = IF r.status = "Err" THEN "Fetch" ELSE ""]

\* One iteration of the outer loop of column_contiguous: day i of the query.
day_step(ctx, st, i) ==
    LET date_columns == At(ctx.columns_per_day, i)
        num_days == Len(ctx.columns_per_day)
        i_offset == ctx.num_ticks_per_day * st.columns_offset
        got == CachedGetter_get(st.cache, ctx.getter_columns, i, date_columns)
        day == [i |-> i, date_columns |-> date_columns, num_columns |-> Len(date_columns),
                i_start_idx |-> ctx.start_idx + i_offset,
                i_time_start_idx |-> i_time_start_idx_of(i, ctx.time_start_idx, ctx.num_ticks_per_day),
                i_time_end_idx |-> i_time_end_idx_of(i, num_days, ctx.time_end_idx, ctx.num_ticks_per_day),
                i_rows_idx |-> got.indices]
        st0 == [st EXCEPT !.cache = got.cache, !.tasks = <<>>, !.f_start_indices = <<>>,
                          !.task_js = <<>>]
        st1 == column_loop(ctx, day, st0, 0)
        st2 == batch_stage(ctx, i, st1)
    IN IF st2.status # "Ok" THEN st2
       ELSE [st2 EXCEPT !.i_time_offset = @ + day.i_time_end_idx - day.i_time_start_idx,
                        !.columns_offset = @ + day.num_columns]

RECURSIVE day_loop(_, _, _)
day_loop(ctx, st, i) ==
    IF st.status # "Ok" \/ i >= Len(ctx.columns_per_day) THEN st
    ELSE day_loop(ctx, day_step(ctx, st, i), i + 1)

\* column_contiguous(c, datetime_start, .., data_getter, flattened, multiplier, offsets)
\* on the query q and the store s, writing through `slice` into st.flattened.
column_contiguous(q, s, getter_columns, data_getter, slice, st) ==
    LET pre == preamble(q, s)
    IN IF pre.status # "Ok" THEN [st EXCEPT !.status = pre.status, !.err = pre.err]
       ELSE day_loop(context(q, s, pre, data_getter, slice, getter_columns), st, 0)

\* A variant of the async column step that writes every day at time offset 0.
async_column_step_no_time_offset(ctx, day, st, j) ==
    LET idx == At(day.i_rows_idx, j)
        corrected_idx == IF idx >= day.num_columns THEN 0 ELSE idx
        date_start_idx == day.i_start_idx + idx * ctx.num_ticks_per_day
        f_start_idx == f_start_idx_of(j, ctx.column_offset, ctx.datetime_len,
                                      0, ctx.total_multiplier)
    IN IF corrected_idx >= day.num_columns THEN [st EXCEPT !.status = "Panic"]
       ELSE IF At(day.date_columns, corrected_idx) = At(ctx.columns, j)
       THEN LET args == make_args(ctx.c, date_start_idx, corrected_idx,
                                  At(ctx.unique_date_idxs, day.i),
                                  day.i_time_start_idx, day.i_time_end_idx,
                                  ctx.num_ticks_per_day)
            IN [st EXCEPT !.tasks = Append(@, args),
                          !.f_start_indices = Append(@, f_start_idx),
                          !.task_js = Append(@, <<day.i, j>>)]
       ELSE LET nan_len == (day.i_time_end_idx - day.i_time_start_idx)
                             * (IF ctx.multiplier # None THEN ctx.multiplier ELSE 1)
            IN fill_data([st EXCEPT !.fills = Append(@, Fill("nan", day.i, j, f_start_idx, nan_len))],
                         ctx.slice, f_start_idx, [n \in 1 .. nan_len |-> NaN],
                         ctx.multiplier, ctx.offsets)

\* ------------------------------------------------ async_column_contiguous
\* Column j of day i in the async planner: a present column is queued, an
\* absent one is NaN-filled inline.
async_column_step(ctx, day, st, j) ==
    LET idx == At(day.i_rows_idx, j)
        corrected_idx == IF idx >= day.num_columns THEN 0 ELSE idx
        date_start_idx == day.i_start_idx + idx * ctx.num_ticks_per_day
        f_start_idx == f_start_idx_of(j, ctx.column_offset, ctx.datetime_len,
                                      st.i_time_offset, ctx.total_multiplier)
    IN IF corrected_idx >= day.num_columns THEN [st EXCEPT !.status = "Panic"]
       ELSE IF At(day.date_columns, corrected_idx) = At(ctx.columns, j)
       THEN LET args == make_args(ctx.c, date_start_idx, corrected_idx,
                                  At(ctx.unique_date_idxs, day.i),
                                  day.i_time_start_idx, day.i_time_end_idx,
                                  ctx.num_ticks_per_day)
            IN [st EXCEPT !.tasks = Append(@, args),
                          !.f_start_indices = Append(@, f_start_idx),
                          !.task_js = Append(@, <<day.i, j>>)]
       ELSE LET nan_len == (day.i_time_end_idx - day.i_time_start_idx)
                             * (IF ctx.multiplier # None THEN ctx.multiplier ELSE 1)
            IN fill_data([st EXCEPT !.fills = Append(@, Fill("nan", day.i, j, f_start_idx, nan_len))],
                         ctx.slice, f_start_idx, [n \in 1 .. nan_len |-> NaN],
                         ctx.multiplier, ctx.offsets)

RECURSIVE async_column_loop(_, _, _, _)
async_column_loop(ctx, day, st, j) ==
    IF st.status # "Ok" \/ j >= Len(ctx.columns) \/ j >= Len(day.i_rows_idx) THEN st
    ELSE async_column_loop(ctx, day, async_column_step(ctx, day, st, j), j + 1)

async_day_step(ctx, st, i) ==
    LET date_columns == At(ctx.columns_per_day, i)
        num_days == Len(ctx.columns_per_day)
        i_offset == ctx.num_ticks_per_day * st.columns_offset
        got == CachedGetter_get(st.cache, ctx.getter_columns, i, date_columns)
        day == [i |-> i, date_columns |-> date_columns, num_columns |-> Len(date_columns),
                i_start_idx |-> ctx.start_idx + i_offset,
                i_time_start_idx |-> i_time_start_idx_of(i, ctx.time_start_idx, ctx.num_ticks_per_day),
                i_time_end_idx |-> i_time_end_idx_of(i, num_days, ctx.time_end_idx, ctx.num_ticks_per_day),
                i_rows_idx |-> got.indices]
        st1 == async_column_loop(ctx, day, [st EXCEPT !.cache = got.cache], 0)
    IN IF st1.status # "Ok" THEN st1
       ELSE [st1 EXCEPT !.i_time_offset = @ + day.i_time_end_idx - day.i_time_start_idx,
                        !.columns_offset = @ + day.num_columns]

RECURSIVE async_day_loop(_, _, _)
async_day_loop(ctx, st, i) ==
    IF st.status # "Ok" \/ i >= Len(ctx.columns_per_day) THEN st
    ELSE async_day_loop(ctx, async_day_step(ctx, st, i), i + 1)

\* The writes after try_join_all succeeded, in task order.
RECURSIVE async_fill(_, _, _, _)
async_fill(ctx, st, batch_data, n) ==
    IF st.status # "Ok" \/ n > Len(batch_data) THEN st
    ELSE async_fill(ctx,
                    fill_data([st EXCEPT !.fills = Append(@, Fill("data", st.task_js[n][1], st.task_js[n][2],
                                                                  st.f_start_indices[n], Len(batch_data[n].data)))],
                              ctx.slice, st.f_start_indices[n], batch_data[n].data,
                              ctx.multiplier, ctx.offsets),
                    batch_data, n + 1)

\* A variant that writes the data of every future that resolved before the
\* first failing one.
async_join_writes_as_resolved(ctx, st) ==
    IF st.status # "Ok" THEN st
    ELSE LET batch_data == [n \in 1 .. Len(st.tasks) |-> Fetcher_fetch(ctx.data_getter, st.tasks[n])]
             st1 == [st EXCEPT !.emitted = st.tasks]
             good == {n \in 0 .. Len(batch_data) : \A m \in 1 .. n : batch_data[m].status = "Ok"}
             first == CHOOSE n \in good : \A m \in good : m <= n
             filled == async_fill(ctx, st1, SubSeq(batch_data, 1, first), 1)
         IN IF first < Len(batch_data) THEN [filled EXCEPT !.status = "Err", !.err = "Fetch"]
            ELSE filled

\* The single await: every task becomes a future (all FetcherArgs are
\* handed to the fetcher), try_join_all fails if one of them fails.
async_join(ctx, st) ==
    IF st.status # "Ok" THEN st
    ELSE LET batch_data == [n \in 1 .. Len(st.tasks) |-> Fetcher_fetch(ctx.data_getter, st.tasks[n])]
             st1 == [st EXCEPT !.emitted = st.tasks]
         IN IF \E n \in 1 .. Len(batch_data) : batch_data[n].status = "Panic"
            THEN [st1 EXCEPT !.status = "Panic"]
            ELSE IF \E n \in 1 .. Len(batch_data) : batch_data[n].status = "Err"
            THEN [st1 EXCEPT !.status = "Err", !.err = "Fetch"]
            ELSE async_fill(ctx, st1, batch_data, 1)

async_column_contiguous(q, s, getter_columns, data_getter, slice, st) ==
    LET pre == preamble(q, s)
    IN IF pre.status # "Ok" THEN [st EXCEPT !.status = pre.status, !.err = pre.err]
       ELSE LET ctx == context(q, s, pre, data_getter, slice, getter_columns)
            IN async_join(ctx, async_day_loop(ctx, st, 0))

\* ----------------------------------------------------------- row_contiguous
\* unique(arr): the sorted distinct values and their counts.
unique(arr) ==
    LET values == SortedSeq({arr[n] : n \in 1 .. Len(arr)})
    IN [values |-> values,
        counts |-> [n \in 1 .. Len(values) |-> Cardinality({m \in 1 .. Len(arr) : arr[m] = values[n]})]]

\* fill_data of row_contiguous: flattened[(time_idx + r) * num_columns + column_idx] = data[r],
\* every index bounds-checked.
row_fill_data(st, time_idx, column_idx, data, num_columns) ==
    IF st.status # "Ok" THEN st
    ELSE LET cells == {(time_idx + r) * num_columns + column_idx : r \in 0 .. (Len(data) - 1)}
         IN IF \E x \in cells : x >= Len(st.flattened) THEN [st EXCEPT !.status = "Panic"]
            ELSE [st EXCEPT
                    !.flattened = [x \in 1 .. Len(st.flattened) |->
                                      IF (x - 1) \in cells
                                      THEN At(data, ((x - 1 - column_idx) \div num_columns) - time_idx)
                                      ELSE st.flattened[x]],
                    !.written = st.written \cup cells]

\* A variant that reads the day's block without transposing it.
row_column_step_untransposed(rc, day, st, i) ==
    LET idx == At(day.columns_idx, i)
        corrected_idx == IF idx >= day.columns_len THEN 0 ELSE idx
    IN IF corrected_idx >= day.columns_len THEN [st EXCEPT !.status = "Panic"]
       ELSE IF At(day.date_columns, corrected_idx) = At(rc.columns, i)
       THEN LET i_selected_data == [r \in 1 .. day.date_count |->
                                       At(day.selected_data, idx * day.date_count + (r - 1))]
            IN row_fill_data([st EXCEPT !.fills = Append(@, Fill("data", day.n, i, day.time_idx, day.date_count))],
                             day.time_idx, i, i_selected_data, rc.num_columns)
       ELSE row_fill_data([st EXCEPT !.fills = Append(@, Fill("nan", day.n, i, day.time_idx, day.date_count))],
                          day.time_idx, i, [r \in 1 .. day.date_count |-> NaN], rc.num_columns)

\* Column i of a day of row_contiguous, out of the day's (date_count, columns_len) block.
row_column_step(rc, day, st, i) ==
    LET idx == At(day.columns_idx, i)
        corrected_idx == IF idx >= day.columns_len THEN 0 ELSE idx
    IN IF corrected_idx >= day.columns_len THEN [st EXCEPT !.status = "Panic"]
       ELSE IF At(day.date_columns, corrected_idx) = At(rc.columns, i)
       THEN LET i_selected_data == [r \in 1 .. day.date_count |->
                                       At(day.selected_data, (r - 1) * day.columns_len + idx)]
            IN row_fill_data([st EXCEPT !.fills = Append(@, Fill("data", day.n, i, day.time_idx, day.date_count))],
                             day.time_idx, i, i_selected_data, rc.num_columns)
       ELSE row_fill_data([st EXCEPT !.fills = Append(@, Fill("nan", day.n, i, day.time_idx, day.date_count))],
                          day.time_idx, i, [r \in 1 .. day.date_count |-> NaN], rc.num_columns)

RECURSIVE row_column_loop(_, _, _, _)
row_column_loop(rc, day, st, i) ==
    IF st.status # "Ok" \/ i >= Len(rc.columns) THEN st
    ELSE row_column_loop(rc, day, row_column_step(rc, day, st, i), i + 1)

\* Day n (0-based position) of row_contiguous; st.columns_offset is `cursor`
\* and st.i_time_offset is `time_idx`.
row_day_step(rc, s, st, n) ==
    LET date_count == At(rc.date_counts, n)
        date_columns == At(rc.columns_per_day, n)
        columns_len == Len(date_columns)
        cursor == st.columns_offset
        cursor_end == cursor + date_count * columns_len
        lo == rc.start_idx + cursor
        hi == rc.start_idx + cursor_end
    IN IF lo < 0 \/ lo > hi \/ hi > Len(s.compact_data) THEN [st EXCEPT !.status = "Panic"]
       ELSE LET day == [n |-> n, date_count |-> date_count, date_columns |-> date_columns,
                        columns_len |-> columns_len, time_idx |-> st.i_time_offset,
                        columns_idx |-> batch_searchsorted(date_columns, rc.columns),
                        selected_data |-> Slice(s.compact_data, lo, hi)]
                st1 == row_column_loop(rc, day, [st EXCEPT !.reads = Append(@, <<lo, hi>>)], 0)
            IN IF st1.status # "Ok" THEN st1
               ELSE [st1 EXCEPT !.columns_offset = cursor_end,
                                !.i_time_offset = @ + date_count]

RECURSIVE row_day_loop(_, _, _, _)
row_day_loop(rc, s, st, n) ==
    IF st.status # "Ok" \/ n >= Len(rc.columns_per_day) THEN st
    ELSE row_day_loop(rc, s, row_day_step(rc, s, st, n), n + 1)

row_contiguous(q, s, st) ==
    LET pre == preamble(q, s)
    IN IF pre.status # "Ok" THEN [st EXCEPT !.status = pre.status, !.err = pre.err]
       ELSE LET date_idxs == Slice(s.time_idx_to_date_idx, pre.time_start_idx, pre.time_end_idx + 1)
                u == unique(date_idxs)
                columns_per_day == [n \in 1 .. Len(u.values) |->
                                       columns_getter(s.compact_columns,
                                                      At(s.date_columns_offset, u.values[n]),
                                                      At(s.date_columns_offset, u.values[n] + 1))]
                offset_before == At(s.date_columns_offset, u.values[1]) * s.num_ticks_per_day
                date_offset == (pre.time_start_idx % s.num_ticks_per_day) * Len(columns_per_day[1])
                rc == [columns |-> q.columns, num_columns |-> Len(q.columns),
                       date_counts |-> u.counts, columns_per_day |-> columns_per_day,
                       start_idx |-> offset_before + date_offset]
            IN row_day_loop(rc, s, st, 0)

\* -------------------------------------------------- single-query wrappers
\* What a call leaves behind: its outcome, the buffer, and the trace of
\* its fetches and fills.
Result(st) ==
    [status |-> st.status, err |-> st.err, flattened |-> st.flattened, written |-> st.written,
     emitted |-> st.emitted, batches |-> st.batches, fills |-> st.fills, reads |-> st.reads]

NoResult ==
    [status |-> "None", err |-> "", flattened |-> <<>>, written |-> {},
     emitted |-> <<>>, batches |-> <<>>, fills |-> <<>>, reads |-> <<>>]

Zeros(n) == [x \in 1 .. n |-> Zero]
WholeSlice(flattened) == [base |-> 0, len |-> Len(flattened)]

PlannerQuery(query, c, multiplier, offsets) ==
    [c |-> c, datetime_start |-> query.datetime_start, datetime_end |-> query.datetime_end,
     datetime_len |-> query.datetime_len, columns |-> query.columns,
     multiplier |-> multiplier, offsets |-> offsets]

shm_row_contiguous(query, s) ==
    LET flattened == Zeros(query.datetime_len * Len(query.columns))
    IN Result(row_contiguous(PlannerQuery(query, None, None, NoOffsets), s,
                             PlanState(flattened, <<>>)))

shm_column_contiguous(query, s) ==
    LET flattened == Zeros(query.datetime_len * Len(query.columns))
    IN Result(column_contiguous(PlannerQuery(query, None, None, NoOffsets), s, query.columns,
                                SHMFetcher_new(s.compact_data), WholeSlice(flattened),
                                PlanState(flattened, <<>>)))

shm_sliced_column_contiguous(query, s, sliced_data, multiplier) ==
    LET flattened == Zeros(query.datetime_len * Len(query.columns)
                             * (IF multiplier = None THEN 1 ELSE multiplier))
    IN Result(column_contiguous(PlannerQuery(query, None, multiplier, NoOffsets), s, query.columns,
                                SlicedSHMFetcher_new(sliced_data, multiplier),
                                WholeSlice(flattened), PlanState(flattened, <<>>)))

\* column_contiguous / async_column_contiguous called directly with a
\* non-batching fetcher whose fetches may fail.
fallible_column_contiguous(query, s, fails) ==
    LET flattened == Zeros(query.datetime_len * Len(query.columns))
    IN Result(column_contiguous(PlannerQuery(query, None, None, NoOffsets), s, query.columns,
                                FallibleFetcher_new(s.compact_data, fails),
                                WholeSlice(flattened), PlanState(flattened, <<>>)))

fallible_async_column_contiguous(query, s, fails) ==
    LET flattened == Zeros(query.datetime_len * Len(query.columns))
    IN Result(async_column_contiguous(PlannerQuery(query, None, None, NoOffsets), s, query.columns,
                                      FallibleFetcher_new(s.compact_data, fails),
                                      WholeSlice(flattened), PlanState(flattened, <<>>)))

\* ------------------------------------------------------------------ stores
\* A store that satisfies the data-model invariants: day d owns the time
\* indices d*T .. d*T + T - 1, full_index is strictly increasing (it skips
\* the value `gap`), each day's columns are sorted, the offsets are
\* cumulative, and the cells of compact_data are pairwise distinct.
MakeStore(num_ticks_per_day, day_sets, gap) ==
    LET nd == Len(day_sets)
        n_time == nd * num_ticks_per_day
        day_columns == [d \in 1 .. nd |-> SortedSeq(day_sets[d])]
        offset == [n \in 1 .. (nd + 1) |-> SeqSum([d \in 1 .. (n - 1) |-> Len(day_columns[d])])]
        compact_data == [x \in 1 .. (offset[nd + 1] * num_ticks_per_day) |-> x]
    IN [num_ticks_per_day |-> num_ticks_per_day,
        full_index |-> [k \in 1 .. n_time |-> IF k - 1 < gap THEN k - 1 ELSE k],
        time_idx_to_date_idx |-> [k \in 1 .. n_time |-> (k - 1) \div num_ticks_per_day],
        date_columns_offset |-> offset,
        compact_columns |-> Flatten(day_columns),
        compact_data |-> compact_data,
        sliced_data |-> [d \in 1 .. nd |-> Slice(compact_data, offset[d] * num_ticks_per_day,
                                                  offset[d + 1] * num_ticks_per_day)],
        grouped_data |-> [d \in 1 .. nd |->
                             [x \in 1 .. (Len(day_columns[d]) * num_ticks_per_day * NumGroups) |->
                                 offset[d] * num_ticks_per_day * NumGroups + x]]]

NumDays(s) == Len(s.date_columns_offset) - 1
DayColumns(s, d) == columns_getter(s.compact_columns, At(s.date_columns_offset, d),
                                   At(s.date_columns_offset, d + 1))
ColumnSeqs == UNION {[1 .. n -> Symbols] : n \in 0 .. MaxCols}

\* The single-query planners.
VARIABLES store, query, call, ret
\* The batched planners: the inputs, the call, the output buffer, one
\* CachedGetter per batch row, the spawned tasks, the result channel and the
\* driver (the calling thread).
VARIABLES batch, bcall, flattened, columns_indices_getters, spawned, channel, driver
\* The RedisClient, the fetch calls in flight on it, the number of calls made
\* and the outcome of the last call that ended.
VARIABLES client, fetchers, ops, redis_ret

\* One call of Fetcher::fetch: the fetcher, the arguments and what came back.
VARIABLES fetcher, fetch_args, fetch_ret
\* The AsyncQueue: its fields results and pending, the tasks spawned on its
\* runtime, the runtime's number of threads, the caller's position and
\* bookkeeping, and what the last call returned.
VARIABLES results, pending, jobs, num_threads_rt, caller, queue_ret

\* Frame I/O: a frame in memory, the build's DF_ALIGN, the bytes an encoder
\* produced and what a decoder returned.
VARIABLES df, DF_ALIGN, encoded, decoded

planVars == <<store, query, call, ret>>
batchVars == <<batch, bcall, flattened, columns_indices_getters, spawned, channel, driver>>
redisVars == <<client, fetchers, ops, redis_ret>>
fetchVars == <<fetcher, fetch_args, fetch_ret>>
queueVars == <<results, pending, jobs, num_threads_rt, caller, queue_ret>>
frameVars == <<df, DF_ALIGN, encoded, decoded>>
vars == <<planVars, batchVars, redisVars, fetchVars, queueVars, frameVars>>

Stores ==
    {MakeStore(t, ds, g) : <<t, ds, g>> \in
        {<<t, ds, g>> \in (1 .. MaxTicks) \X (UNION {[1 .. nd -> SUBSET Symbols] : nd \in 1 .. MaxDays})
                          \X (0 .. MaxDays * MaxTicks) :
            g \in {1, Len(ds) * t}}}

\* The cells (date_idx, date_col_idx) of a store, for the fetches that fail.
FailChoices(s) ==
    {{}} \cup {{<<d, p>>} : <<d, p>> \in
                 {<<d, p>> \in (0 .. (NumDays(s) - 1)) \X (0 .. (MaxSym - 1)) :
                     p < Len(DayColumns(s, d))}}

Call(op, multiplier, fails) == [op |-> op, multiplier |-> multiplier, fails |-> fails]

InitPlan ==
    /\ store \in Stores
    /\ query \in {[datetime_start |-> a, datetime_end |-> a + l - 1 + e, datetime_len |-> l, columns |-> cs] :
                     <<a, l, e, cs>> \in
                        {<<a, l, e, cs>> \in
                            (0 .. Len(store.full_index)) \X (1 .. Len(store.full_index)) \X (0 .. 1) \X ColumnSeqs :
                            a + l <= Len(store.full_index) + 1}}
    /\ call = Call("none", None, {})
    /\ ret = NoResult

ShmRowContiguous ==
    /\ call.op = "none"
    /\ call' = Call("shm_row_contiguous", None, {})
    /\ ret' = shm_row_contiguous(query, store)
    /\ UNCHANGED <<store, query, batchVars, redisVars, fetchVars, queueVars, frameVars>>

ShmColumnContiguous ==
    /\ call.op = "none"
    /\ call' = Call("shm_column_contiguous", None, {})
    /\ ret' = shm_column_contiguous(query, store)
    /\ UNCHANGED <<store, query, batchVars, redisVars, fetchVars, queueVars, frameVars>>

ShmSlicedColumnContiguous ==
    /\ call.op = "none"
    /\ \E multiplier \in {None, NumGroups} :
          /\ call' = Call("shm_sliced_column_contiguous", multiplier, {})
          /\ ret' = shm_sliced_column_contiguous(
                        query, store,
                        IF multiplier = None THEN store.sliced_data ELSE store.grouped_data,
                        multiplier)
    /\ UNCHANGED <<store, query, batchVars, redisVars, fetchVars, queueVars, frameVars>>

ColumnContiguous ==
    /\ call.op = "none"
    /\ \E fails \in FailChoices(store) :
          /\ call' = Call("column_contiguous", None, fails)
          /\ ret' = fallible_column_contiguous(query, store, fails)
    /\ UNCHANGED <<store, query, batchVars, redisVars, fetchVars, queueVars, frameVars>>

AsyncColumnContiguous ==
    /\ call.op = "none"
    /\ \E fails \in FailChoices(store) :
          /\ call' = Call("async_column_contiguous", None, fails)
          /\ ret' = fallible_async_column_contiguous(query, store, fails)
    /\ UNCHANGED <<store, query, batchVars, redisVars, fetchVars, queueVars, frameVars>>


\* ------------------------------------------------------ batched planners
MaxBatch == 2       \* batch rows B
MaxChannels == 2    \* channels C
MaxThreads == 2     \* num_threads ranges over 1..MaxThreads
MaxTasks == 2       \* spawned tasks B * C of a call
MaxGroupedTasks == 2 * MaxTasks    \* spawned tasks G * B * chunks of a grouped call

Min(a, b) == IF a < b THEN a ELSE b

BatchCall(op, nc, num_threads, multiplier, fails) ==
    [op |-> op, nc |-> nc, num_threads |-> num_threads, multiplier |-> multiplier, fails |-> fails]

NoBatchCall == BatchCall("none", 0, 0, None, {})

\* num_data_per_task = datetime_len * columns[0].len() (* num_groups)
num_data_per_task(in, multiplier) ==
    in.datetime_len * Len(At(in.columns, 0)) * (IF multiplier = None THEN 1 ELSE multiplier)

\* The task spawned for batch row i and channel c, with its block offset.
SpawnedTask(in, bc, i, c) ==
    [i |-> i, c |-> c, offset |-> (i * bc.nc + c) * num_data_per_task(in, bc.multiplier),
     pc |-> "queued", day |-> 0, st |-> PlanState(<<>>, <<>>)]

\* The spawn loops: channels outside, batch rows inside.
spawn(in, bc) ==
    LET nb == Len(in.datetime_start)
    IN [n \in 1 .. (bc.nc * nb) |-> SpawnedTask(in, bc, (n - 1) % nb, (n - 1) \div nb)]

\* redis_grouped_column_contiguous: the number of columns of a task, the
\* number of column chunks, and the chunk [start, end) of index n; the last
\* chunk takes the remainder.
num_columns_per_task(num_columns) ==
    LET a == num_columns \div 200
        b == Min(10, num_columns)
    IN IF a > b THEN a ELSE b

num_columns_task(num_columns) == num_columns \div num_columns_per_task(num_columns)

column_chunk(n, num_columns) ==
    [column_start |-> n * num_columns_per_task(num_columns),
     column_end |-> IF n = num_columns_task(num_columns) - 1 THEN num_columns
                    ELSE (n + 1) * num_columns_per_task(num_columns)]

\* A variant whose pads stay those of the first group.
RECURSIVE channel_pads_of_first_group(_, _)
channel_pads_of_first_group(multipliers, g) ==
    IF g = 0
    THEN [channel_pad_start |-> 0, channel_pad_end |-> SeqSum(multipliers) - At(multipliers, 0)]
    ELSE channel_pads_of_first_group(multipliers, g - 1)

\* The pads of group g as the loop over the groups leaves them:
\* channel_pad_start starts at 0 and grows by the multiplier after each
\* group, channel_pad_end starts at nc and shrinks by it before each group.
RECURSIVE channel_pads(_, _)
channel_pads(multipliers, g) ==
    IF g = 0
    THEN [channel_pad_start |-> 0, channel_pad_end |-> SeqSum(multipliers) - At(multipliers, 0)]
    ELSE LET prev == channel_pads(multipliers, g - 1)
         IN [channel_pad_start |-> prev.channel_pad_start + At(multipliers, g - 1),
             channel_pad_end |-> prev.channel_pad_end - At(multipliers, g)]

\* The spawn loops of redis_grouped_column_contiguous: groups outside, then
\* batch rows, then column chunks; bc.multiplier holds `multipliers`.
spawn_grouped(in, bc) ==
    LET bz == Len(in.datetime_start)
        num_columns == Len(At(in.columns, 0))
        nt == num_columns_task(num_columns)
        pads(g) == channel_pads(bc.multiplier, g)
        chunk(n) == column_chunk(n, num_columns)
        task(g, b, n) ==
            [i |-> b, c |-> g, n |-> n, offset |-> b * (num_columns * in.datetime_len * bc.nc),
             column_start |-> chunk(n).column_start, column_end |-> chunk(n).column_end,
             offsets |-> [some |-> TRUE, column_offset |-> chunk(n).column_start,
                          channel_pad_start |-> pads(g).channel_pad_start,
                          channel_pad_end |-> pads(g).channel_pad_end],
             pc |-> "queued", day |-> 0, st |-> PlanState(<<>>, <<>>)]
    IN [k \in 1 .. (Len(bc.multiplier) * bz * nt) |->
           task((k - 1) \div (bz * nt), ((k - 1) \div nt) % bz, (k - 1) % nt)]

\* The index of a task's CachedGetter: its batch row, or bn_index.
getter_index(in, bc, t) ==
    IF bc.op = "redis_grouped_column_contiguous"
    THEN t.i * num_columns_task(Len(At(in.columns, 0))) + t.n + 1
    ELSE t.i + 1

\* The fetcher a task builds.
task_data_getter(in, bc, c) ==
    CASE bc.op = "shm_batch_column_contiguous" -> SHMFetcher_new(At(in.stores, c).compact_data)
      [] bc.op = "shm_batch_sliced_column_contiguous" ->
            SlicedSHMFetcher_new(At(in.stores, c).sliced_data, None)
      [] bc.op = "shm_batch_grouped_sliced_column_contiguous" ->
            SlicedSHMFetcher_new(At(in.stores, 0).grouped_data, bc.multiplier)
      [] bc.op = "redis_grouped_column_contiguous" ->
            RedisGroupedFetcher_new(IF At(bc.multiplier, c) = 1 THEN At(in.stores, c).sliced_data
                                    ELSE At(in.stores, c).grouped_data,
                                    At(bc.multiplier, c), {f[2] : f \in {f \in bc.fails : f[1] = c}})
      [] OTHER -> RedisFetcher_new([k \in 1 .. bc.nc |-> in.stores[k].sliced_data], bc.fails)

\* The arguments a task passes to column_contiguous.
task_query(in, bc, t) ==
    IF bc.op = "redis_grouped_column_contiguous"
    THEN [c |-> None,
          datetime_start |-> At(in.datetime_start, t.i), datetime_end |-> At(in.datetime_end, t.i),
          datetime_len |-> in.datetime_len,
          columns |-> Slice(At(in.columns, t.i), t.column_start, t.column_end),
          multiplier |-> At(bc.multiplier, t.c), offsets |-> t.offsets]
    ELSE
    [c |-> IF bc.op = "shm_batch_grouped_sliced_column_contiguous" THEN None ELSE t.c,
     datetime_start |-> At(in.datetime_start, t.i), datetime_end |-> At(in.datetime_end, t.i),
     datetime_len |-> in.datetime_len, columns |-> At(in.columns, t.i),
     multiplier |-> bc.multiplier, offsets |-> NoOffsets]

\* flattened_slice.slice(offset, offset + num_data_per_task)
task_slice(in, bc, t, flat) ==
    IF bc.op = "redis_grouped_column_contiguous"
    THEN UnsafeSlice_slice(WholeSlice(flat), t.offset,
                           t.offset + Len(At(in.columns, 0)) * in.datetime_len * bc.nc)
    ELSE
    UnsafeSlice_slice(WholeSlice(flat), t.offset, t.offset + num_data_per_task(in, bc.multiplier))

task_context(in, bc, t, flat) ==
    LET q == task_query(in, bc, t)
        s == At(in.stores, t.c)
    IN context(q, s, preamble(q, s), task_data_getter(in, bc, t.c),
               task_slice(in, bc, t, flat), q.columns)

\* A variant in which only a task that returned Ok sends.
send_ok_only(chan, t, st) ==
    IF st.status = "Ok"
    THEN Append(chan, [i |-> t.i, c |-> t.c, status |-> st.status, err |-> st.err])
    ELSE chan

\* i_sender.send(rv): a task that returns sends its Result; a task that
\* panics sends nothing.
send(chan, t, st) ==
    IF st.status \in {"Ok", "Err"}
    THEN Append(chan, [i |-> t.i, c |-> t.c, status |-> st.status, err |-> st.err])
    ELSE chan

\* pool.scope returns once every spawned task has finished.
scope_closed(tasks) == \A n \in 1 .. Len(tasks) : tasks[n].pc = "finished"

\* A variant that looks at the first result of the channel only.
try_for_each_first_only(chan) ==
    IF chan # <<>> /\ chan[1].status = "Err"
    THEN [status |-> "Err", err |-> chan[1].err]
    ELSE [status |-> "Ok", err |-> ""]

\* receiver.iter().try_for_each(|x| x)?: the first Err of the channel, else Ok.
try_for_each(chan) ==
    IF \E n \in 1 .. Len(chan) : chan[n].status = "Err"
    THEN LET first == CHOOSE n \in 1 .. Len(chan) :
                         /\ chan[n].status = "Err"
                         /\ \A m \in 1 .. (n - 1) : chan[m].status # "Err"
         IN [status |-> "Err", err |-> chan[first].err]
    ELSE [status |-> "Ok", err |-> ""]

\* What the driver returns after the scope: the scope re-raises the panic of
\* a task; otherwise the channel decides.
drain(tasks, chan) ==
    IF \E n \in 1 .. Len(tasks) : tasks[n].st.status = "UB" THEN [status |-> "UB", err |-> ""]
    ELSE IF \E n \in 1 .. Len(tasks) : tasks[n].st.status = "Panic" THEN [status |-> "Panic", err |-> ""]
    ELSE try_for_each(chan)

\* The batch inputs: MaxTicks ticks a day over two days whose column sets
\* are the whole universe or its last symbol; every row asks the same number
\* of ticks, from the first or the second tick of the index.
BatchStores ==
    {MakeStore(MaxTicks, ds, 2 * MaxTicks) : ds \in [1 .. 2 -> {Symbols, {MaxSym - 1}}]}

\* The store of channel c: its cells are told apart from the other channels'.
ChannelStore(s, c) ==
    [s EXCEPT !.compact_data = [x \in DOMAIN @ |-> @[x] + 100 * c],
              !.sliced_data = [d \in DOMAIN @ |-> [x \in DOMAIN @[d] |-> @[d][x] + 100 * c]],
              !.grouped_data = [d \in DOMAIN @ |-> [x \in DOMAIN @[d] |-> @[d][x] + 100 * c]]]

BatchColumns == {<<0>>, <<MaxSym - 1>>, <<0, MaxSym - 1>>}

BatchInputs ==
    {[stores |-> [c \in 1 .. nc |-> ChannelStore(ss[c], c - 1)],
      datetime_start |-> [b \in 1 .. nb |-> a],
      datetime_end |-> [b \in 1 .. nb |-> a + (2 * MaxTicks - 1) - 1 + es[b]],
      datetime_len |-> 2 * MaxTicks - 1,
      columns |-> [b \in 1 .. nb |-> cs[b]]] :
        <<nc, nb, a>> \in {<<nc, nb, a>> \in (1 .. MaxChannels) \X (1 .. MaxBatch) \X (0 .. 1) :
                             nc * nb <= MaxTasks},
        ss \in [1 .. MaxChannels -> BatchStores],
        es \in [1 .. MaxBatch -> 0 .. 1],
        cs \in [1 .. MaxBatch -> BatchColumns]}
InitBatch ==
    /\ batch \in BatchInputs
    /\ bcall = NoBatchCall
    /\ flattened = <<>>
    /\ columns_indices_getters = <<>>
    /\ spawned = <<>>
    /\ channel = <<>>
    /\ driver = [pc |-> "idle", status |-> "None", err |-> ""]

\* The body of a batched planner up to the end of the spawn loops.
Plan(op, nc, num_threads, multiplier, fails) ==
    LET bc == BatchCall(op, nc, Min(num_threads, Len(batch.datetime_start) * nc), multiplier, fails)
    IN /\ driver.pc = "idle"
       /\ bcall' = bc
       /\ flattened' = Zeros(Len(batch.datetime_start) * nc * num_data_per_task(batch, multiplier))
       /\ columns_indices_getters' = [b \in 1 .. Len(batch.columns) |-> <<>>]
       /\ spawned' = spawn(batch, bc)
       /\ channel' = <<>>
       /\ driver' = [driver EXCEPT !.pc = "scope"]
       /\ UNCHANGED <<batch, planVars, redisVars, fetchVars, queueVars, frameVars>>

ShmBatchColumnContiguous ==
    \E num_threads \in 1 .. MaxThreads :
        Plan("shm_batch_column_contiguous", Len(batch.stores), num_threads, None, {})

ShmBatchSlicedColumnContiguous ==
    \E num_threads \in 1 .. MaxThreads :
        Plan("shm_batch_sliced_column_contiguous", Len(batch.stores), num_threads, None, {})

ShmBatchGroupedSlicedColumnContiguous ==
    /\ Len(batch.stores) = 1
    /\ \E num_threads \in 1 .. MaxThreads :
          Plan("shm_batch_grouped_sliced_column_contiguous", 1, num_threads, NumGroups, {})

RedisColumnContiguous ==
    \E num_threads \in 1 .. MaxThreads : \E fails \in {{}, {<<0, 0>>}} :
        Plan("redis_column_contiguous", Len(batch.stores), num_threads, None, fails)

\* The inputs of the grouped planner: one store per group, rows of
\* 2 * 10 + 1 columns (two chunks, the second with the remainder) or of two,
\* the rows after the first of two.
GroupedColumns == {[k \in 1 .. 21 |-> (k - 1) % MaxSym], <<0, MaxSym - 1>>}

\* The stores of the groups: the first day holds every symbol or the last one.
GroupedStores ==
    {MakeStore(MaxTicks, ds, 2 * MaxTicks) : ds \in {<<Symbols, Symbols>>, <<{MaxSym - 1}, Symbols>>}}

GroupedInputs ==
    {[stores |-> [g \in 1 .. ng |-> ChannelStore(ss[g], g - 1)],
      datetime_start |-> [b \in 1 .. nb |-> a],
      datetime_end |-> [b \in 1 .. nb |-> a + (2 * MaxTicks - 1) - 1 + es[b]],
      datetime_len |-> 2 * MaxTicks - 1,
      columns |-> [b \in 1 .. nb |-> cs[b]]] :
        <<ng, nb, a>> \in {<<ng, nb, a>> \in (1 .. MaxChannels) \X (1 .. MaxBatch) \X (0 .. 1) :
                             ng * nb <= MaxTasks},
        ss \in [1 .. MaxChannels -> GroupedStores],
        es \in [1 .. MaxBatch -> 0 .. 1],
        cs \in {cs \in [1 .. MaxBatch -> GroupedColumns] : \A b \in 2 .. MaxBatch : Len(cs[b]) <= 2}}

InitGrouped ==
    /\ batch \in GroupedInputs
    /\ bcall = NoBatchCall
    /\ flattened = <<>>
    /\ columns_indices_getters = <<>>
    /\ spawned = <<>>
    /\ channel = <<>>
    /\ driver = [pc |-> "idle", status |-> "None", err |-> ""]

\* redis_grouped_column_contiguous up to the end of the spawn loops. The
\* getters are built first, from columns[b].slice(column_start..column_end),
\* which panics on a row shorter than columns[0].
RedisGroupedColumnContiguous ==
    \E num_threads \in 1 .. MaxThreads :
    \E multipliers \in [1 .. Len(batch.stores) -> {1, NumGroups}] :
    \E fails \in {{}, {<<0, 0>>}} :
        LET bz == Len(batch.datetime_start)
            nc == SeqSum(multipliers)
            num_columns == Len(At(batch.columns, 0))
            num_tasks == bz * Len(multipliers) * num_columns_task(num_columns)
            bc == BatchCall("redis_grouped_column_contiguous", nc, Min(num_threads, num_tasks),
                            multipliers, fails)
            short == \E b \in 1 .. bz : Len(batch.columns[b]) < num_columns
        IN /\ driver.pc = "idle"
           /\ bcall' = bc
           /\ flattened' = Zeros(bz * num_columns * batch.datetime_len * nc)
           /\ columns_indices_getters' = [k \in 1 .. (bz * num_columns_task(num_columns)) |-> <<>>]
           /\ spawned' = IF short THEN <<>> ELSE spawn_grouped(batch, bc)
           /\ channel' = <<>>
           /\ driver' = IF short THEN [pc |-> "done", status |-> "Panic", err |-> ""]
                         ELSE [driver EXCEPT !.pc = "scope"]
           /\ UNCHANGED <<batch, planVars, redisVars, fetchVars, queueVars, frameVars>>

\* A free worker of the pool takes a queued task, which runs the preamble of
\* column_contiguous; a task whose preamble fails sends its Err and ends.
TaskStart(n) ==
    /\ driver.pc = "scope"
    /\ spawned[n].pc = "queued"
    /\ Cardinality({m \in 1 .. Len(spawned) : spawned[m].pc = "running"}) < bcall.num_threads
    /\ LET t == spawned[n]
           pre == preamble(task_query(batch, bcall, t), At(batch.stores, t.c))
           st == [t.st EXCEPT !.status = pre.status, !.err = pre.err]
       IN IF pre.status = "Ok"
          THEN /\ spawned' = [spawned EXCEPT ![n].pc = "running"]
               /\ UNCHANGED channel
          ELSE /\ spawned' = [spawned EXCEPT ![n].pc = "finished", ![n].st = st]
               /\ channel' = send(channel, t, st)
    /\ UNCHANGED <<batch, bcall, flattened, columns_indices_getters, driver, planVars, redisVars, fetchVars, queueVars, frameVars>>

\* A running task executes one day of column_contiguous on the shared
\* buffer and the CachedGetter of its row; after its last day, or on a
\* failure, it sends its result and ends.
TaskDay(n) ==
    /\ driver.pc = "scope"
    /\ spawned[n].pc = "running"
    /\ LET t == spawned[n]
           ctx == task_context(batch, bcall, t, flattened)
           st == day_step(ctx, [t.st EXCEPT !.flattened = flattened,
                                            !.cache = columns_indices_getters[getter_index(batch, bcall, t)]],
                          t.day)
           kept == [st EXCEPT !.flattened = <<>>, !.cache = <<>>]
           last == st.status # "Ok" \/ t.day + 1 >= Len(ctx.columns_per_day)
       IN /\ flattened' = st.flattened
          /\ columns_indices_getters' = [columns_indices_getters EXCEPT ![getter_index(batch, bcall, t)] = st.cache]
          /\ spawned' = [spawned EXCEPT ![n].st = kept, ![n].day = t.day + 1,
                                        ![n].pc = IF last THEN "finished" ELSE "running"]
          /\ channel' = IF last THEN send(channel, t, st) ELSE channel
    /\ UNCHANGED <<batch, bcall, driver, planVars, redisVars, fetchVars, queueVars, frameVars>>

\* After the scope the driver drains the channel and returns.
Drain ==
    /\ driver.pc = "scope"
    /\ scope_closed(spawned)
    /\ LET r == drain(spawned, channel)
       IN driver' = [pc |-> "done", status |-> r.status, err |-> r.err]
    /\ UNCHANGED <<batch, bcall, flattened, columns_indices_getters, spawned, channel, planVars, redisVars, fetchVars, queueVars, frameVars>>

\* ------------------------------------------------- io/temporal/mem/redis.rs
MaxPool == 2        \* pool_size ranges over 0..MaxPool
MaxFetchers == 2    \* threads that call fetch
MaxOps == 4         \* calls in a client's life
SizeOfT == 2        \* size_of::<T>() in bytes
MaxReply == 2       \* a reply holds up to MaxReply items per range
MaxRanges == 2      \* ranges of one batch_fetch, and strings of one reply

\* RedisClient::new
RedisClient_new ==
    [cursor |-> 0, poisoned |-> FALSE, cluster |-> FALSE,
     conn_pool |-> [some |-> FALSE, slots |-> <<>>], warmed_up |-> FALSE]

\* RedisClient::reset(urls, pool_size, reconnect): init_client succeeds or
\* not, and get_connection succeeds for the first `opened` slots (all of
\* them when opened = pool_size).
reset(self, pool_size, reconnect, init_client_ok, opened) ==
    IF (reconnect \/ ~self.cluster) /\ ~init_client_ok THEN [self |-> self, status |-> "Err"]
    ELSE LET s1 == [self EXCEPT !.cluster = TRUE]
         IN IF reconnect \/ ~s1.conn_pool.some
            THEN LET s2 == [s1 EXCEPT !.conn_pool = [some |-> TRUE,
                                                     slots |-> [k \in 1 .. pool_size |-> k <= opened]]]
                 IN IF opened < pool_size THEN [self |-> s2, status |-> "Err"]
                    ELSE [self |-> [s2 EXCEPT !.warmed_up = TRUE], status |-> "Ok"]
            ELSE [self |-> s1, status |-> "Ok"]

\* The probe loop of roll_pool_idx from offset i: the first slot whose
\* try_lock succeeds together with the loop variable i at the return, len
\* for both when none does, "Panic" on an empty slot.
RECURSIVE roll_probe(_, _, _, _)
roll_probe(slots, locked, current, i) ==
    IF i >= Len(slots) THEN [status |-> "Ok", idx |-> Len(slots), i |-> Len(slots)]
    ELSE LET idx == (current + i) % Len(slots)
         IN IF ~At(slots, idx) THEN [status |-> "Panic", idx |-> idx, i |-> i]
            ELSE IF idx \notin locked THEN [status |-> "Ok", idx |-> idx, i |-> i]
            ELSE roll_probe(slots, locked, current, i + 1)

\* roll_pool_idx with the cursor left where the scan started.
roll_pool_idx_cursor_kept(self, locked) ==
    LET slots == self.conn_pool.slots
        probe == roll_probe(slots, locked, self.cursor, 0)
    IN IF self.poisoned THEN [status |-> "Panic", idx |-> 0, i |-> 0, self |-> self]
       ELSE IF probe.status = "Panic" \/ Len(slots) = 0
       THEN [status |-> "Panic", idx |-> 0, i |-> 0, self |-> [self EXCEPT !.poisoned = TRUE]]
       ELSE [status |-> "Ok", idx |-> IF probe.idx < Len(slots) THEN probe.idx ELSE self.cursor,
             i |-> probe.i, self |-> self]

\* roll_pool_idx with the cursor advanced but not reduced modulo the pool's
\* length.
roll_pool_idx_cursor_unreduced(self, locked) ==
    LET slots == self.conn_pool.slots
        current == self.cursor
        probe == roll_probe(slots, locked, current, 0)
    IN IF self.poisoned THEN [status |-> "Panic", idx |-> 0, i |-> 0, self |-> self]
       ELSE IF probe.status = "Panic" \/ Len(slots) = 0
       THEN [status |-> "Panic", idx |-> 0, i |-> 0, self |-> [self EXCEPT !.poisoned = TRUE]]
       ELSE IF probe.idx < Len(slots)
       THEN [status |-> "Ok", idx |-> probe.idx, i |-> probe.i, self |-> [self EXCEPT !.cursor = probe.idx + 1]]
       ELSE [status |-> "Ok", idx |-> current, i |-> probe.i, self |-> [self EXCEPT !.cursor = current + 1]]

\* roll_pool_idx(cursor, pool) while the connections of `locked` are held:
\* the index it returns and the client with its cursor moved. A panic inside
\* poisons the cursor's mutex.
roll_pool_idx(self, locked) ==
    LET slots == self.conn_pool.slots
        current == self.cursor
        probe == roll_probe(slots, locked, current, 0)
    IN IF self.poisoned THEN [status |-> "Panic", idx |-> 0, i |-> 0, self |-> self]
       ELSE IF probe.status = "Panic" \/ Len(slots) = 0
       THEN [status |-> "Panic", idx |-> 0, i |-> 0, self |-> [self EXCEPT !.poisoned = TRUE]]
       ELSE IF probe.idx < Len(slots)
       THEN [status |-> "Ok", idx |-> probe.idx, i |-> probe.i,
             self |-> [self EXCEPT !.cursor = (probe.idx + 1) % Len(slots)]]
       ELSE [status |-> "Ok", idx |-> current, i |-> probe.i,
             self |-> [self EXCEPT !.cursor = (current + 1) % Len(slots)]]

\* `x as usize` of an isize: reduction modulo 2^64. Every length of the model
\* is below 2^30 and TLC's integers end at 2^31, so the modulus is 2^30: a
\* negative difference still lands above every reply length.
as_usize(x) == x % (2 ^ 30)

\* convert::to_nbytes
to_nbytes(values_len) == values_len * SizeOfT

\* convert::from_bytes: every size_of::<T>() bytes make one value (here the
\* value is its group of bytes); bytes beyond the last whole group are dropped.
from_bytes(bytes) ==
    [k \in 1 .. (Len(bytes) \div SizeOfT) |-> Slice(bytes, (k - 1) * SizeOfT, k * SizeOfT)]

\* What a call of the client returns: the call, its outcome, the error
\* message, the server's reply (replied = FALSE when none arrived) and the
\* data handed to the caller.
RedisRet(op, status) ==
    [op |-> op, status |-> status, err |-> "", replied |-> FALSE, req |-> <<>>, rv |-> <<>>, data |-> <<>>]

\* RedisError::data_not_enough
data_not_enough(rr, ctx) == [rr EXCEPT !.status = "Err", !.err = "fetched data is not enough", !.data = <<>>]

\* RedisClient::fetch from the reply rv of GETRANGE on.
RedisClient_fetch_rv(rr, start, end, rv) ==
    IF Len(rv) # as_usize(end - start) THEN data_not_enough(rr, "fetched")
    ELSE [rr EXCEPT !.status = "Ok", !.data = from_bytes(rv)]

\* RedisClient::batch_fetch with the inner lengths left unchecked.
RedisClient_batch_fetch_rv_outer_only(rr, start_indices, end_indices, rv) ==
    IF Len(rv) # Len(start_indices) THEN data_not_enough(rr, "outer")
    ELSE [rr EXCEPT !.status = "Ok", !.data = [i \in 1 .. Len(rv) |-> from_bytes(rv[i])]]

\* RedisClient::batch_fetch from the reply rv of the script on.
RedisClient_batch_fetch_rv(rr, start_indices, end_indices, rv) ==
    IF Len(rv) # Len(start_indices) THEN data_not_enough(rr, "outer")
    ELSE IF \E i \in 1 .. Len(rv) : Len(rv[i]) # as_usize(end_indices[i] - start_indices[i])
    THEN data_not_enough(rr, "inner")
    ELSE [rr EXCEPT !.status = "Ok", !.data = [i \in 1 .. Len(rv) |-> from_bytes(rv[i])]]

\* The calls of the model: fetch(key, start, end) and batch_fetch(key,
\* start_indices, end_indices), in bytes.
Requests ==
    {[op |-> "fetch", starts |-> <<r[1]>>, ends |-> <<r[2]>>] : r \in {<<0, SizeOfT>>, <<SizeOfT, 0>>}}
    \cup {[op |-> "batch_fetch", starts |-> <<>>, ends |-> <<>>],
          [op |-> "batch_fetch", starts |-> <<0>>, ends |-> <<>>],
          [op |-> "batch_fetch", starts |-> <<0>>, ends |-> <<SizeOfT>>],
          [op |-> "batch_fetch", starts |-> <<0, 0>>, ends |-> <<SizeOfT, 2 * SizeOfT>>]}

\* The server's replies: n bytes of the key's value from `start` on, for a
\* value of any length; the script returns any number of such strings.
ReplyBytes(start, n) == [k \in 1 .. n |-> (start + k) % 256]
StartOf(req, i) == IF i <= Len(req.starts) THEN req.starts[i] ELSE 0
Replies(req) ==
    IF req.op = "fetch"
    THEN {ReplyBytes(req.starts[1], n * SizeOfT) : n \in 0 .. MaxReply}
    ELSE UNION {{[i \in 1 .. m |-> ReplyBytes(StartOf(req, i), ns[i] * SizeOfT)] :
                    ns \in [1 .. m -> 0 .. MaxReply]} : m \in 0 .. MaxRanges}

Idle == [pc |-> "idle", idx |-> 0, i |-> 0, req |-> <<>>]
Locked == {fetchers[t].idx : t \in {u \in DOMAIN fetchers : fetchers[u].pc = "getrange"}}

InitRedis ==
    /\ client = RedisClient_new
    /\ fetchers = [t \in 1 .. MaxFetchers |-> Idle]
    /\ ops = 0
    /\ redis_ret = RedisRet("new", "Ok")

\* A call of reset; it takes &mut self, so no fetch is in flight.
Reset ==
    /\ ops < MaxOps
    /\ \A t \in 1 .. MaxFetchers : fetchers[t].pc = "idle"
    /\ \E pool_size \in 0 .. MaxPool : \E reconnect \in BOOLEAN :
       \E init_client_ok \in BOOLEAN : \E opened \in 0 .. pool_size :
          LET r == reset(client, pool_size, reconnect, init_client_ok, opened)
          IN /\ client' = r.self
             /\ redis_ret' = RedisRet("reset", r.status)
    /\ ops' = ops + 1
    /\ UNCHANGED <<fetchers, planVars, batchVars, fetchVars, queueVars, frameVars>>

\* fetch and batch_fetch up to the end of roll_pool_idx.
FetchRoll(t) ==
    /\ ops < MaxOps
    /\ fetchers[t].pc = "idle"
    /\ ops' = ops + 1
    /\ \E req \in Requests :
          IF \/ ~client.warmed_up
             \/ Len(req.starts) # Len(req.ends)
             \/ ~client.conn_pool.some
          THEN /\ redis_ret' = [RedisRet(req.op, "Panic") EXCEPT !.req = req]
               /\ UNCHANGED <<client, fetchers>>
          ELSE LET r == roll_pool_idx(client, Locked)
               IN /\ client' = r.self
                  /\ IF r.status = "Ok"
                     THEN /\ fetchers' = [fetchers EXCEPT ![t] =
                                             [pc |-> "lock", idx |-> r.idx, i |-> r.i, req |-> req]]
                          /\ UNCHANGED redis_ret
                     ELSE /\ redis_ret' = [RedisRet(req.op, "Panic") EXCEPT !.req = req]
                          /\ UNCHANGED fetchers
    /\ UNCHANGED <<planVars, batchVars, fetchVars, queueVars, frameVars>>

\* The lock of the slot taken although another caller holds the connection.
FetchLock_without_mutex(t) ==
    /\ fetchers[t].pc = "lock"
    /\ fetchers[t].idx < Len(client.conn_pool.slots)
    /\ fetchers' = [fetchers EXCEPT ![t].pc = "getrange"]
    /\ UNCHANGED <<client, ops, redis_ret, planVars, batchVars, fetchVars, queueVars, frameVars>>

\* pool[idx].as_ref().unwrap().lock().unwrap(): blocks while the connection is held.
FetchLock(t) ==
    /\ fetchers[t].pc = "lock"
    /\ IF fetchers[t].idx >= Len(client.conn_pool.slots) \/ ~At(client.conn_pool.slots, fetchers[t].idx)
       THEN /\ fetchers' = [fetchers EXCEPT ![t] = Idle]
            /\ redis_ret' = [RedisRet(fetchers[t].req.op, "Panic") EXCEPT !.req = fetchers[t].req]
       ELSE /\ fetchers[t].idx \notin Locked
            /\ fetchers' = [fetchers EXCEPT ![t].pc = "getrange"]
            /\ UNCHANGED redis_ret
    /\ UNCHANGED <<client, ops, planVars, batchVars, fetchVars, queueVars, frameVars>>

\* The round trip on the held connection (GETRANGE, or the script), the
\* release of the connection, the length checks and the conversion.
FetchReturn(t) ==
    /\ fetchers[t].pc = "getrange"
    /\ LET req == fetchers[t].req
           called == [RedisRet(req.op, "Err") EXCEPT !.req = req]
       IN \/ redis_ret' = [called EXCEPT !.err = "transport"]
          \/ \E rv \in Replies(req) :
                LET replied == [called EXCEPT !.replied = TRUE, !.rv = rv]
                IN redis_ret' = IF req.op = "fetch"
                                THEN RedisClient_fetch_rv(replied, req.starts[1], req.ends[1], rv)
                                ELSE RedisClient_batch_fetch_rv(replied, req.starts, req.ends, rv)
    /\ fetchers' = [fetchers EXCEPT ![t] = Idle]
    /\ UNCHANGED <<client, ops, planVars, batchVars, fetchVars, queueVars, frameVars>>

\* ------------------------------------------------------------ Fetcher::fetch
MaxItems == 2       \* a scripted batch_fetch returns 0..MaxItems arrays

\* The fetchers of a call of Fetcher::fetch: a RedisFetcher over one channel
\* of a store, with or without a failing key, and the scripted fetchers, whose
\* batch_fetch returns Err or Ok with 0..MaxItems arrays.
ScriptedArrays ==
    UNION {{[k \in 1 .. n |-> <<10 * k + x[k]>>] : x \in [1 .. n -> 0 .. 1]} : n \in 0 .. MaxItems}
FetchFetchers ==
    {RedisFetcher_new(<<s.sliced_data>>, fails) : <<s, fails>> \in BatchStores \X {{}, {<<0, 0>>}}}
    \cup {ScriptedFetcher_new(arrays, {}) : arrays \in ScriptedArrays}
    \cup {ScriptedFetcher_new(<<>>, {<<0, 0>>})}

\* The arguments of the call: one tick range of one column of one day.
FetchArgsChoices ==
    {FetcherArgs(c, 0, t1 - t0, d, 0, 0, t0, t1, MaxTicks, t1 - t0) :
        <<c, d, t0, t1>> \in {<<c, d, t0, t1>> \in {None, 0} \X (0 .. 1) \X (0 .. MaxTicks) \X (0 .. MaxTicks) :
                                 t0 < t1}}

NoFetchRet == [status |-> "None", err |-> "", data |-> <<>>, rv |-> FetchErr]

InitFetch ==
    /\ fetcher \in FetchFetchers
    /\ fetch_args \in FetchArgsChoices
    /\ fetch_ret = NoFetchRet

\* data_getter.fetch(args) on a fetcher that has the trait's fetch; rv is what
\* its batch_fetch returns for the singleton.
DefaultFetch ==
    /\ fetch_ret.status = "None"
    /\ LET r == Fetcher_fetch(fetcher, fetch_args)
       IN fetch_ret' = [status |-> r.status, err |-> r.err, data |-> r.data,
                        rv |-> Fetcher_batch_fetch(fetcher, <<fetch_args>>)]
    /\ UNCHANGED <<fetcher, fetch_args, planVars, batchVars, redisVars, queueVars, frameVars>>

\* --------------------------------------------------------- toolkit/queue.rs
MaxJobs == 3        \* jobs submitted in a queue's life
MaxCursor == 1      \* cursors range over 0..MaxCursor
MaxResets == 2      \* calls of reset in a queue's life

\* Worker::process, the user's function: the result names the cursor and the
\* data it was computed from.
Worker_process(cursor, data) == [cursor |-> cursor, out |-> 100 + data]

\* A task spawned on the runtime by submit: "spawned" until a worker thread
\* polls it, "running" while it computes and until it has inserted its
\* result, then "done"; "cancelled" when it was aborted before its first
\* poll. The data of a job is its serial number, and epoch is the number of
\* resets called before the submit.
Job(cursor, data, epoch) == [cursor |-> cursor, data |-> data, pc |-> "spawned", epoch |-> epoch]

\* The caller: its position inside reset (todo are the handles still to be
\* drained), the number of resets it has called, and the cursors it has
\* submitted since the last reset and not yet popped.
Caller(pc, block, todo, resets, outstanding) ==
    [pc |-> pc, block |-> block, todo |-> todo, resets |-> resets, outstanding |-> outstanding]

\* What the last call returned; for a reset, the handles it drained and the
\* ones it has aborted.
QueueRet(op) ==
    [op |-> op, status |-> "Ok", cursor |-> 0, some |-> FALSE, value |-> Worker_process(0, 0),
     block |-> FALSE, handles |-> <<>>, aborted |-> {}]

\* HashMap::insert and HashMap::remove on results.
insert(map, cursor, result) == (cursor :> result) @@ map
remove(map, cursor) == [c \in (DOMAIN map) \ {cursor} |-> map[c]]

\* AsyncQueue::new(worker, num_threads): init_rt builds a current-thread
\* runtime for num_threads <= 1 and a multi-thread runtime otherwise.
InitQueue ==
    /\ num_threads_rt \in 1 .. MaxThreads
    /\ results = <<>>
    /\ pending = <<>>
    /\ jobs = <<>>
    /\ caller = Caller("idle", FALSE, <<>>, 0, {})
    /\ queue_ret = QueueRet("new")

\* AsyncQueue::submit(cursor, data), with a cursor that is not in use.
Submit(cursor) ==
    /\ caller.pc = "idle"
    /\ Len(jobs) < MaxJobs
    /\ cursor \notin caller.outstanding
    /\ jobs' = Append(jobs, Job(cursor, Len(jobs) + 1, caller.resets))
    /\ pending' = Append(pending, Len(jobs) + 1)
    /\ caller' = [caller EXCEPT !.outstanding = @ \cup {cursor}]
    /\ queue_ret' = [QueueRet("submit") EXCEPT !.cursor = cursor]
    /\ UNCHANGED <<results, num_threads_rt, planVars, batchVars, redisVars, fetchVars, frameVars>>

\* The runtime polls a spawned task: a multi-thread runtime on one of its
\* free worker threads, a current-thread runtime only inside block_on.
TaskPoll(j) ==
    /\ jobs[j].pc = "spawned"
    /\ IF num_threads_rt <= 1 THEN caller.pc = "block"
       ELSE Cardinality({k \in 1 .. Len(jobs) : jobs[k].pc = "running"}) < num_threads_rt
    /\ jobs' = [jobs EXCEPT ![j].pc = "running"]
    /\ UNCHANGED <<results, pending, num_threads_rt, caller, queue_ret, planVars, batchVars, redisVars, fetchVars, frameVars>>

\* The task's body, which has no await point: worker.process(cursor, data),
\* then results.lock().unwrap().insert(cursor, result).
TaskInsert(j) ==
    /\ jobs[j].pc = "running"
    /\ results' = insert(results, jobs[j].cursor, Worker_process(jobs[j].cursor, jobs[j].data))
    /\ jobs' = [jobs EXCEPT ![j].pc = "done"]
    /\ UNCHANGED <<pending, num_threads_rt, caller, queue_ret, planVars, batchVars, redisVars, fetchVars, frameVars>>

\* AsyncQueue::pop(cursor)
Pop(cursor) ==
    /\ caller.pc = "idle"
    /\ LET some == cursor \in DOMAIN results
       IN /\ queue_ret' = [QueueRet("pop") EXCEPT !.cursor = cursor, !.some = some,
                                                  !.value = IF some THEN results[cursor] ELSE @]
          /\ caller' = [caller EXCEPT !.outstanding = IF some THEN @ \ {cursor} ELSE @]
    /\ results' = remove(results, cursor)
    /\ UNCHANGED <<pending, jobs, num_threads_rt, planVars, batchVars, redisVars, fetchVars, frameVars>>

\* AsyncQueue::reset(block_after_abort), its first statements: results is
\* cleared and pending is drained.
ResetClear ==
    /\ caller.pc = "idle"
    /\ caller.resets < MaxResets
    /\ \E block_after_abort \in BOOLEAN :
          /\ caller' = Caller("abort", block_after_abort, pending, caller.resets + 1, {})
          /\ queue_ret' = [QueueRet("reset") EXCEPT !.status = "Running", !.block = block_after_abort,
                                                    !.handles = pending]
    /\ results' = <<>>
    /\ pending' = <<>>
    /\ UNCHANGED <<jobs, num_threads_rt, planVars, batchVars, redisVars, fetchVars, frameVars>>

\* handle.abort() on the next drained handle: a task that has not been polled
\* yet is cancelled; a running task has no await point left and runs on; a
\* finished task is not affected.
ResetAbort ==
    /\ caller.pc = "abort"
    /\ caller.todo # <<>>
    /\ LET h == Head(caller.todo)
       IN /\ jobs' = [jobs EXCEPT ![h].pc = IF @ = "spawned" THEN "cancelled" ELSE @]
          /\ queue_ret' = [queue_ret EXCEPT !.aborted = @ \cup {h}]
    /\ caller' = IF caller.block THEN [caller EXCEPT !.pc = "block"]
                 ELSE [caller EXCEPT !.todo = Tail(@)]
    /\ UNCHANGED <<results, pending, num_threads_rt, planVars, batchVars, redisVars, fetchVars, frameVars>>

\* self.rt.block_on(handle)?: waits until the task has ended; a cancelled
\* task gives a JoinError, which `?` returns from reset, and the handles
\* not yet drained are dropped with the iterator.
ResetJoin ==
    /\ caller.pc = "block"
    /\ LET h == Head(caller.todo)
       IN /\ jobs[h].pc \in {"done", "cancelled"}
          /\ IF jobs[h].pc = "cancelled"
             THEN /\ caller' = [caller EXCEPT !.pc = "idle", !.todo = <<>>]
                  /\ queue_ret' = [queue_ret EXCEPT !.status = "Err"]
             ELSE /\ caller' = [caller EXCEPT !.pc = "abort", !.todo = Tail(@)]
                  /\ UNCHANGED queue_ret
    /\ UNCHANGED <<results, pending, jobs, num_threads_rt, planVars, batchVars, redisVars, fetchVars, frameVars>>

\* reset returns Ok once every handle has been drained.
ResetReturn ==
    /\ caller.pc = "abort"
    /\ caller.todo = <<>>
    /\ caller' = [caller EXCEPT !.pc = "idle"]
    /\ queue_ret' = [queue_ret EXCEPT !.status = "Ok"]
    /\ UNCHANGED <<results, pending, jobs, num_threads_rt, planVars, batchVars, redisVars, fetchVars, frameVars>>

\* ---------------------------------------------------------------- df/io
MaxRows == 2        \* a frame has 0..MaxRows rows
MaxFrameCols == 2   \* and 0..MaxFrameCols columns
INDEX_NBYTES == 8     \* size_of::<IndexDtype>()
COLUMNS_NBYTES == 32  \* the width of a ColumnsDtype
HEADER_NBYTES == 8    \* the width of one i64 of the header

\* i64::to_le_bytes of a length below 2^24, and its inverse get_i64_le /
\* i64::from_le_bytes; a value whose upper bytes are set is beyond every
\* buffer of the model.
to_le_bytes(x) == [k \in 1 .. HEADER_NBYTES |-> IF k <= 3 THEN (x \div (256 ^ (k - 1))) % 256 ELSE 0]
from_le_bytes(b) ==
    IF \E k \in 4 .. HEADER_NBYTES : b[k] # 0 THEN 2 ^ 30
    ELSE b[1] + 256 * b[2] + 65536 * b[3]

\* convert::to_bytes: a value in memory is its group of bytes, and the bytes
\* of a slice are the elements' bytes one after the other.
to_bytes(values) == Flatten(values)

\* convert::from_bytes::<T> with size_of::<T>() = size.
from_bytes_of(size, bytes) == [k \in 1 .. (Len(bytes) \div size) |-> Slice(bytes, (k - 1) * size, k * size)]

\* align_nbytes for a build whose DF_ALIGN is df_align.
align_nbytes(df_align, nbytes) ==
    LET remainder == nbytes % df_align
    IN IF remainder = 0 THEN nbytes ELSE nbytes + df_align - remainder

\* buffer.rs extract_bytes::<T> on a reader (the bytes left, the number
\* consumed, the outcome so far, the vector last extracted):
\* copy_to_bytes(align_nbytes(nbytes)), which panics when fewer bytes remain,
\* then from_bytes.
extract_bytes(buf, size, df_align, nbytes) ==
    LET aligned == align_nbytes(df_align, nbytes)
    IN IF aligned > Len(buf.rest) THEN [buf EXCEPT !.status = "Panic"]
       ELSE [buf EXCEPT !.out = from_bytes_of(size, Slice(buf.rest, 0, aligned)),
                        !.rest = Slice(buf.rest, aligned, Len(buf.rest)),
                        !.consumed = @ + aligned]

\* read_exact of nbytes bytes on the same kind of reader, then from_bytes::<T>.
read_exact(file, size, nbytes) ==
    IF nbytes > Len(file.rest) THEN [file EXCEPT !.status = "Err"]
    ELSE [file EXCEPT !.out = from_bytes_of(size, Slice(file.rest, 0, nbytes)),
                      !.rest = Slice(file.rest, nbytes, Len(file.rest)),
                      !.consumed = @ + nbytes]

\* A frame of element size `size`: index, columns and the row-major values.
DataFrame(index, columns, values, size) ==
    [index |-> index, columns |-> columns, values |-> values, size |-> size]

\* What a decoder returns: the outcome, the frame and the bytes consumed.
Decoded(by, status, frame, consumed) == [by |-> by, status |-> status, df |-> frame, consumed |-> consumed]

\* DataFrame::from_owned: the vectors become arrays of shapes (N), (S) and
\* (N, S); a values vector of another length is a shape error.
from_owned(by, index, columns, values, size, consumed) ==
    IF Len(values) # Len(index) * Len(columns) THEN Decoded(by, "ShapeError", DataFrame(<<>>, <<>>, <<>>, 0), consumed)
    ELSE Decoded(by, "Ok", DataFrame(index, columns, values, size), consumed)

\* DataFrame::to_bytes: the two lengths, then the three sections.
DataFrame_to_bytes(self) ==
    to_le_bytes(Len(self.index) * INDEX_NBYTES) \o to_le_bytes(Len(self.columns) * COLUMNS_NBYTES)
    \o to_bytes(self.index) \o to_bytes(self.columns) \o to_bytes(self.values)

\* DataFrame::save_to, the bytes written to the file.
DataFrame_save_to(self) ==
    LET index_nbytes == Len(self.index) * INDEX_NBYTES
        columns_nbytes == Len(self.columns) * COLUMNS_NBYTES
    IN to_le_bytes(index_nbytes) \o to_le_bytes(columns_nbytes)
       \o to_bytes(self.index) \o to_bytes(self.columns) \o to_bytes(self.values)

\* DataFrame::<T>::from_buffer with size_of::<T>() = size.
DataFrame_from_buffer(bytes, size, df_align) ==
    IF Len(bytes) < 2 * HEADER_NBYTES THEN Decoded("from_buffer", "Panic", DataFrame(<<>>, <<>>, <<>>, 0), 0)
    ELSE LET index_nbytes == from_le_bytes(Slice(bytes, 0, HEADER_NBYTES))
             columns_nbytes == from_le_bytes(Slice(bytes, HEADER_NBYTES, 2 * HEADER_NBYTES))
             buf0 == [rest |-> Slice(bytes, 2 * HEADER_NBYTES, Len(bytes)), consumed |-> 2 * HEADER_NBYTES, status |-> "Ok", out |-> <<>>]
             index_shape == index_nbytes \div INDEX_NBYTES
             columns_shape == columns_nbytes \div COLUMNS_NBYTES
             buf1 == extract_bytes(buf0, INDEX_NBYTES, df_align, index_nbytes)
             buf2 == IF buf1.status = "Ok" THEN extract_bytes(buf1, COLUMNS_NBYTES, df_align, columns_nbytes) ELSE buf1
             values_nbytes == size * (index_shape * columns_shape)
             buf3 == IF buf2.status = "Ok" THEN extract_bytes(buf2, size, df_align, values_nbytes) ELSE buf2
         IN IF buf3.status # "Ok" THEN Decoded("from_buffer", buf3.status, DataFrame(<<>>, <<>>, <<>>, 0), buf3.consumed)
            ELSE from_owned("from_buffer", buf1.out, buf2.out, buf3.out, size, buf3.consumed)

\* DataFrame::<T>::load_from with size_of::<T>() = size.
DataFrame_load_from(bytes, size) ==
    IF Len(bytes) < 2 * HEADER_NBYTES THEN Decoded("load_from", "Err", DataFrame(<<>>, <<>>, <<>>, 0), 0)
    ELSE LET index_nbytes == from_le_bytes(Slice(bytes, 0, HEADER_NBYTES))
             columns_nbytes == from_le_bytes(Slice(bytes, HEADER_NBYTES, 2 * HEADER_NBYTES))
             file0 == [rest |-> Slice(bytes, 2 * HEADER_NBYTES, Len(bytes)), consumed |-> 2 * HEADER_NBYTES, status |-> "Ok", out |-> <<>>]
             index_shape == index_nbytes \div INDEX_NBYTES
             columns_shape == columns_nbytes \div COLUMNS_NBYTES
             values_nbytes == size * (index_shape * columns_shape)
             file1 == read_exact(file0, INDEX_NBYTES, index_nbytes)
             file2 == IF file1.status = "Ok" THEN read_exact(file1, COLUMNS_NBYTES, columns_nbytes) ELSE file1
             file3 == IF file2.status = "Ok" THEN read_exact(file2, size, values_nbytes) ELSE file2
         IN IF file3.status # "Ok" THEN Decoded("load_from", file3.status, DataFrame(<<>>, <<>>, <<>>, 0), file3.consumed)
            ELSE from_owned("load_from", file1.out, file2.out, file3.out, size, file3.consumed)

\* The frames of the model: a strictly increasing index, any columns, any
\* values, and T = f32 (4 bytes) or f64 (8 bytes). The bytes of an element
\* differ from each other, so that a regrouping of bytes shows.
Frames ==
    LET Element(p, w) == [k \in 1 .. w |-> (16 * p + k) % 256]
        Increasing(n) == {g \in [1 .. n -> 1 .. MaxRows] : \A x, y \in 1 .. n : x < y => g[x] < g[y]}
        Indexes == UNION {{[k \in 1 .. n |-> Element(g[k], INDEX_NBYTES)] : g \in Increasing(n)} : n \in 0 .. MaxRows}
        Columns == UNION {[1 .. n -> {Element(7, COLUMNS_NBYTES), Element(8, COLUMNS_NBYTES)}] : n \in 0 .. MaxFrameCols}
    IN UNION {{DataFrame(index, columns, values, size) :
                  values \in [1 .. (Len(index) * Len(columns)) -> {Element(9, size), Element(10, size)}]} :
              <<index, columns, size>> \in Indexes \X Columns \X {4, 8}}

\* A frame in memory, on a build whose DF_ALIGN (the alignment of the frame
\* struct, that of a pointer) is 4 or 8.
InitFrame ==
    /\ df \in Frames
    /\ DF_ALIGN \in {4, 8}
    /\ encoded = [by |-> "none", bytes |-> <<>>]
    /\ decoded = Decoded("none", "None", DataFrame(<<>>, <<>>, <<>>, 0), 0)

\* df.to_bytes()
ToBytes ==
    /\ encoded.by = "none"
    /\ encoded' = [by |-> "to_bytes", bytes |-> DataFrame_to_bytes(df)]
    /\ UNCHANGED <<df, DF_ALIGN, decoded, planVars, batchVars, redisVars, fetchVars, queueVars>>

\* df.save_to(file)
SaveTo ==
    /\ encoded.by = "none"
    /\ encoded' = [by |-> "save_to", bytes |-> DataFrame_save_to(df)]
    /\ UNCHANGED <<df, DF_ALIGN, decoded, planVars, batchVars, redisVars, fetchVars, queueVars>>

\* DataFrame::<T>::from_buffer(bytes.as_slice())
FromBuffer ==
    /\ encoded.by = "to_bytes"
    /\ decoded.by = "none"
    /\ decoded' = DataFrame_from_buffer(encoded.bytes, df.size, DF_ALIGN)
    /\ UNCHANGED <<df, DF_ALIGN, encoded, planVars, batchVars, redisVars, fetchVars, queueVars>>

\* DataFrame::<T>::load_from(file)
LoadFrom ==
    /\ encoded.by = "save_to"
    /\ decoded.by = "none"
    /\ decoded' = DataFrame_load_from(encoded.bytes, df.size)
    /\ UNCHANGED <<df, DF_ALIGN, encoded, planVars, batchVars, redisVars, fetchVars, queueVars>>

\* ----------------------------------------------------------- specifications
IdlePlan ==
    /\ store = MakeStore(1, <<Symbols>>, 1)
    /\ query = [datetime_start |-> 0, datetime_end |-> 0, datetime_len |-> 1, columns |-> <<>>]
    /\ call = Call("done", None, {})
    /\ ret = NoResult

IdleBatch ==
    /\ batch = [stores |-> <<>>, datetime_start |-> <<>>, datetime_end |-> <<>>,
                datetime_len |-> 0, columns |-> <<>>]
    /\ bcall = NoBatchCall
    /\ flattened = <<>>
    /\ columns_indices_getters = <<>>
    /\ spawned = <<>>
    /\ channel = <<>>
    /\ driver = [pc |-> "off", status |-> "None", err |-> ""]

IdleRedis ==
    /\ client = RedisClient_new
    /\ fetchers = <<>>
    /\ ops = MaxOps
    /\ redis_ret = RedisRet("none", "None")

IdleFetch ==
    /\ fetcher = ScriptedFetcher_new(<<>>, {})
    /\ fetch_args = FetcherArgs(None, 0, 0, 0, 0, 0, 0, 0, 1, 0)
    /\ fetch_ret = [NoFetchRet EXCEPT !.status = "Off"]

IdleQueue ==
    /\ results = <<>>
    /\ pending = <<>>
    /\ jobs = <<>>
    /\ num_threads_rt = 0
    /\ caller = Caller("off", FALSE, <<>>, 0, {})
    /\ queue_ret = QueueRet("none")

IdleFrame ==
    /\ df = DataFrame(<<>>, <<>>, <<>>, 0)
    /\ DF_ALIGN = 8
    /\ encoded = [by |-> "none", bytes |-> <<>>]
    /\ decoded = Decoded("none", "Off", DataFrame(<<>>, <<>>, <<>>, 0), 0)

Init == InitPlan /\ IdleBatch /\ IdleRedis /\ IdleFetch /\ IdleQueue /\ IdleFrame
Next ==
    \/ ShmRowContiguous
    \/ ShmColumnContiguous
    \/ ShmSlicedColumnContiguous
    \/ ColumnContiguous
    \/ AsyncColumnContiguous
Spec == Init /\ [][Next]_vars

InitB == InitBatch /\ IdlePlan /\ IdleRedis /\ IdleFetch /\ IdleQueue /\ IdleFrame
NextBatch ==
    \/ ShmBatchColumnContiguous
    \/ ShmBatchSlicedColumnContiguous
    \/ ShmBatchGroupedSlicedColumnContiguous
    \/ RedisColumnContiguous
    \/ \E n \in 1 .. MaxTasks : n <= Len(spawned) /\ TaskStart(n)
    \/ \E n \in 1 .. MaxTasks : n <= Len(spawned) /\ TaskDay(n)
    \/ Drain
SpecBatch == InitB /\ [][NextBatch]_vars

\* The pool's workers run the tasks that are queued and the task they hold;
\* the calling thread goes on once the scope has returned.
FairBatch == WF_vars(Drain) /\ \A n \in 1 .. MaxTasks : WF_vars(n <= Len(spawned) /\ TaskStart(n)) /\ WF_vars(n <= Len(spawned) /\ TaskDay(n))
SpecBatchLive == InitB /\ [][NextBatch]_vars /\ FairBatch

InitG == InitGrouped /\ IdlePlan /\ IdleRedis /\ IdleFetch /\ IdleQueue /\ IdleFrame
NextGrouped ==
    \/ RedisGroupedColumnContiguous
    \/ \E n \in 1 .. MaxGroupedTasks : n <= Len(spawned) /\ TaskStart(n)
    \/ \E n \in 1 .. MaxGroupedTasks : n <= Len(spawned) /\ TaskDay(n)
    \/ Drain
SpecGrouped == InitG /\ [][NextGrouped]_vars

InitR == InitRedis /\ IdlePlan /\ IdleBatch /\ IdleFetch /\ IdleQueue /\ IdleFrame
NextRedis ==
    \/ Reset
    \/ \E t \in 1 .. MaxFetchers : FetchRoll(t)
    \/ \E t \in 1 .. MaxFetchers : FetchLock(t)
    \/ \E t \in 1 .. MaxFetchers : FetchReturn(t)
SpecRedis == InitR /\ [][NextRedis]_vars

InitF == InitFetch /\ IdlePlan /\ IdleBatch /\ IdleRedis /\ IdleQueue /\ IdleFrame
NextFetch == DefaultFetch
SpecFetch == InitF /\ [][NextFetch]_vars

InitQ == InitQueue /\ IdlePlan /\ IdleBatch /\ IdleRedis /\ IdleFetch /\ IdleFrame
NextQueue ==
    \/ \E cursor \in 0 .. MaxCursor : Submit(cursor)
    \/ \E j \in 1 .. MaxJobs : j <= Len(jobs) /\ TaskPoll(j)
    \/ \E j \in 1 .. MaxJobs : j <= Len(jobs) /\ TaskInsert(j)
    \/ \E cursor \in 0 .. MaxCursor : Pop(cursor)
    \/ ResetClear
    \/ ResetAbort
    \/ ResetJoin
    \/ ResetReturn
SpecQueue == InitQ /\ [][NextQueue]_vars

\* The queue under the scheduling the runtime gives: a worker thread that can
\* poll a spawned task does so, and a task that runs reaches its end
\* (worker.process returns). The caller's own calls are under no obligation.
FairQueue == \A j \in 1 .. MaxJobs : WF_vars(j <= Len(jobs) /\ TaskPoll(j)) /\ WF_vars(j <= Len(jobs) /\ TaskInsert(j))
SpecQueueLive == InitQ /\ [][NextQueue]_vars /\ FairQueue

InitD == InitFrame /\ IdlePlan /\ IdleBatch /\ IdleRedis /\ IdleFetch /\ IdleQueue
NextFrame ==
    \/ ToBytes
    \/ SaveTo
    \/ FromBuffer
    \/ LoadFrom
SpecFrame == InitD /\ [][NextFrame]_vars

\* ================================================================ claims
Has(seq, v) == \E n \in 1 .. Len(seq) : seq[n] = v
PosOf(seq, v) == (CHOOSE n \in 1 .. Len(seq) : seq[n] = v) - 1
Called == call.op # "none"

\* The data-model invariants a query relies on: no day without columns.
EveryDayHasColumns == \A d \in 0 .. (NumDays(store) - 1) : DayColumns(store, d) # <<>>

\* The triple (datetime_start, datetime_end, datetime_len) is consistent:
\* datetime_start is the timestamp at k0 and datetime_end the one at k0 + len - 1.
TripleConsistent ==
    /\ Has(store.full_index, query.datetime_start)
    /\ PosOf(store.full_index, query.datetime_start) + query.datetime_len - 1 < Len(store.full_index)
    /\ At(store.full_index, PosOf(store.full_index, query.datetime_start) + query.datetime_len - 1)
          = query.datetime_end

TimeIdx(t) == PosOf(store.full_index, query.datetime_start) + t
DateOf(t) == At(store.time_idx_to_date_idx, TimeIdx(t))
DaysOfQuery == {DateOf(t) : t \in 0 .. (query.datetime_len - 1)}

\* The cell of (column j, tick t) in a column-contiguous compact array.
ColumnCell(j, t) ==
    LET d == DateOf(t)
        cols == DayColumns(store, d)
        sym == At(query.columns, j)
    IN IF Has(cols, sym)
       THEN At(store.compact_data,
               (At(store.date_columns_offset, d) + PosOf(cols, sym)) * store.num_ticks_per_day
                 + (TimeIdx(t) % store.num_ticks_per_day))
       ELSE NaN

\* The cell of (column j, tick t) in a row-contiguous compact array.
RowCell(j, t) ==
    LET d == DateOf(t)
        cols == DayColumns(store, d)
        sym == At(query.columns, j)
    IN IF Has(cols, sym)
       THEN At(store.compact_data,
               At(store.date_columns_offset, d) * store.num_ticks_per_day
                 + (TimeIdx(t) % store.num_ticks_per_day) * Len(cols) + PosOf(cols, sym))
       ELSE NaN

\* C1: a valid query over a valid column-contiguous store returns Ok(out) with
\* out[j*datetime_len + t] = the compact cell of (day of tick, position of
\* columns[j] in that day, tick in day), or NaN when the day lacks columns[j].
C1_ColumnContiguousCells ==
    (call.op = "shm_column_contiguous" /\ EveryDayHasColumns /\ TripleConsistent)
    => /\ ret.status = "Ok"
       /\ Len(ret.flattened) = query.datetime_len * Len(query.columns)
       /\ \A j \in 0 .. (Len(query.columns) - 1) : \A t \in 0 .. (query.datetime_len - 1) :
             At(ret.flattened, j * query.datetime_len + t) = ColumnCell(j, t)

C1_Witness ==
    /\ call.op = "shm_column_contiguous" /\ EveryDayHasColumns /\ TripleConsistent
    /\ ret.status = "Ok"
    /\ Cardinality(DaysOfQuery) >= 3
    /\ TimeIdx(0) % store.num_ticks_per_day # 0
    /\ Len(query.columns) = 2 /\ query.columns[1] > query.columns[2]
    /\ \E x \in 1 .. Len(ret.flattened) : ret.flattened[x] = NaN
    /\ \E x \in 1 .. Len(ret.flattened) : ret.flattened[x] > 0

\* C2: a valid query over a valid row-contiguous store returns Ok(out) with
\* out[t*|columns| + j] = the row-major cell of (day, tick in day, position),
\* or NaN when the day lacks columns[j].
C2_RowContiguousCells ==
    (call.op = "shm_row_contiguous" /\ EveryDayHasColumns /\ TripleConsistent)
    => /\ ret.status = "Ok"
       /\ Len(ret.flattened) = query.datetime_len * Len(query.columns)
       /\ \A j \in 0 .. (Len(query.columns) - 1) : \A t \in 0 .. (query.datetime_len - 1) :
             At(ret.flattened, t * Len(query.columns) + j) = RowCell(j, t)

C2_Witness ==
    /\ call.op = "shm_row_contiguous" /\ EveryDayHasColumns /\ TripleConsistent
    /\ ret.status = "Ok"
    /\ Cardinality(DaysOfQuery) >= 3
    /\ TimeIdx(0) % store.num_ticks_per_day # 0
    /\ Len(query.columns) = 2 /\ query.columns[1] > query.columns[2]
    /\ \E x \in 1 .. Len(ret.flattened) : ret.flattened[x] = NaN
    /\ \E x \in 1 .. Len(ret.flattened) : ret.flattened[x] > 0

\* The width of a cell of the output: the multiplier of the call, or 1.
CallWidth == IF call.multiplier = None THEN 1 ELSE call.multiplier
TickOffsetOfDay(d) == Cardinality({t \in 0 .. (query.datetime_len - 1) : DateOf(t) < d})
TicksOfDay(d) == Cardinality({t \in 0 .. (query.datetime_len - 1) : DateOf(t) = d})
DayPosition(d) == Cardinality({e \in DaysOfQuery : e < d})
Absent(j, d) == ~Has(DayColumns(store, d), At(query.columns, j))

\* C3: in row_contiguous and column_contiguous, for every day of the query
\* range, whatever the size of its column set, and every requested symbol the
\* day lacks, every output cell of (day, symbol) is NaN, the NaN run is
\* written where and as long as a fetch would have been, and no fetch is
\* issued for it.
C3_MissingIsNaN ==
    (call.op \in {"shm_row_contiguous", "shm_column_contiguous", "shm_sliced_column_contiguous"}
       /\ TripleConsistent)
    => \A j \in 0 .. (Len(query.columns) - 1) : \A d \in DaysOfQuery :
          Absent(j, d) =>
             /\ Len(ret.flattened) = query.datetime_len * Len(query.columns) * CallWidth
             /\ \A t \in 0 .. (query.datetime_len - 1) : \A w \in 0 .. (CallWidth - 1) :
                   DateOf(t) = d =>
                      At(ret.flattened,
                         IF call.op = "shm_row_contiguous" THEN t * Len(query.columns) + j
                         ELSE (j * query.datetime_len + t) * CallWidth + w) = NaN
             /\ \E n \in 1 .. Len(ret.fills) :
                   ret.fills[n] =
                      Fill("nan", DayPosition(d), j,
                           IF call.op = "shm_row_contiguous" THEN TickOffsetOfDay(d)
                           ELSE (j * query.datetime_len + TickOffsetOfDay(d)) * CallWidth,
                           IF call.op = "shm_row_contiguous" THEN TicksOfDay(d)
                           ELSE TicksOfDay(d) * CallWidth)
             /\ Cardinality({n \in 1 .. Len(ret.emitted) : ret.emitted[n].date_idx = d})
                   <= Cardinality({i \in 0 .. (Len(query.columns) - 1) : ~Absent(i, d)})

\* C4: when full_index[time_start_idx + datetime_len - 1] differs from
\* datetime_end, the three planners return IndexDiscontinuous, having written
\* no output cell and issued no fetch.
C4_IndexDiscontinuous ==
    LET time_start_idx == Cardinality({k \in 1 .. Len(store.full_index) :
                                          store.full_index[k] < query.datetime_start})
        time_end_idx == time_start_idx + query.datetime_len - 1
    IN (Called /\ time_end_idx < Len(store.full_index)
          /\ At(store.full_index, time_end_idx) # query.datetime_end)
       => /\ ret.status = "Err" /\ ret.err = "IndexDiscontinuous"
          /\ ret.written = {}
          /\ \A x \in 1 .. Len(ret.flattened) : ret.flattened[x] = Zero
          /\ ret.emitted = <<>> /\ ret.batches = <<>> /\ ret.reads = <<>> /\ ret.fills = <<>>

C4_Witness ==
    /\ call.op = "async_column_contiguous"
    /\ Has(store.full_index, query.datetime_start)
    /\ PosOf(store.full_index, query.datetime_start) + query.datetime_len - 1 < Len(store.full_index)
    /\ At(store.full_index, PosOf(store.full_index, query.datetime_start) + query.datetime_len - 1)
          # query.datetime_end
    /\ Has(store.full_index, query.datetime_end)
    /\ Len(query.columns) > 0 /\ EveryDayHasColumns
    /\ ret.status = "Err" /\ ret.err = "IndexDiscontinuous"

\* C8: with multiplier None and per-day slices of the compact array, the
\* sliced planner returns the buffer of shm_column_contiguous, and the two
\* SHM fetchers deliver the same slice for every FetcherArgs emitted.
C8_SlicedEqualsCompact ==
    (call.op = "shm_sliced_column_contiguous" /\ call.multiplier = None /\ TripleConsistent)
    => LET compact == shm_column_contiguous(query, store)
       IN /\ ret.status = compact.status
          /\ ret.flattened = compact.flattened
          /\ \A n \in 1 .. Len(ret.emitted) :
                SlicedSHMFetcher_fetch(store.sliced_data, None, ret.emitted[n])
                   = SHMFetcher_fetch(store.compact_data, ret.emitted[n])

C8_Witness ==
    /\ call.op = "shm_sliced_column_contiguous" /\ call.multiplier = None /\ TripleConsistent
    /\ ret.status = "Ok"
    /\ Cardinality(DaysOfQuery) >= 2
    /\ \E n \in 1 .. Len(ret.emitted) :
          /\ ret.emitted[n].date_idx > 0 /\ ret.emitted[n].date_col_idx > 0
          /\ ret.emitted[n].start_idx # ret.emitted[n].time_start_idx
    /\ \E x \in 1 .. Len(ret.flattened) : ret.flattened[x] = NaN

IsPrefix(a, b) == Len(a) <= Len(b) /\ \A n \in 1 .. Len(a) : a[n] = b[n]

\* C9 as stated: async_column_contiguous and column_contiguous with the same
\* arguments and fetcher emit the same FetcherArgs in the same order, have the
\* same Ok/Err outcome and, when all fetches succeed, the same buffer.
C9_AsyncSameAsSync ==
    call.op = "async_column_contiguous"
    => LET sync == fallible_column_contiguous(query, store, call.fails)
       IN /\ ret.emitted = sync.emitted
          /\ ret.status = sync.status
          /\ (ret.status = "Ok" => ret.flattened = sync.flattened)

\* C9 amended: the two return Ok together, and then with the same FetcherArgs
\* in the same order and the same buffer; when both return Err, the
\* FetcherArgs of the sync planner, which stops at its first failing fetch,
\* are a prefix of those of the async planner, which hands every FetcherArgs
\* to the fetcher before it awaits.
C9_AsyncSameAsSyncAmended ==
    call.op = "async_column_contiguous"
    => LET sync == fallible_column_contiguous(query, store, call.fails)
       IN /\ (ret.status = "Ok") = (sync.status = "Ok")
          /\ (ret.status = "Ok" => ret.emitted = sync.emitted /\ ret.flattened = sync.flattened)
          /\ (ret.status = "Err" /\ sync.status = "Err" => IsPrefix(sync.emitted, ret.emitted))

C9_Witness ==
    /\ call.op = "async_column_contiguous" /\ TripleConsistent /\ EveryDayHasColumns
    /\ ret.status = "Err" /\ ret.err = "Fetch"
    /\ Len(fallible_column_contiguous(query, store, call.fails).emitted) < Len(ret.emitted)
    /\ \E n \in 1 .. Len(ret.fills) : ret.fills[n].kind = "nan"

\* ------------------------------------------------- batched planners: claims
\* The block [(b*C + c)*L, (b*C + c + 1)*L) of the task of row b and channel c.
BlockOf(b, c) ==
    LET L == batch.datetime_len * Len(batch.columns[1])
               * (IF bcall.op = "shm_batch_grouped_sliced_column_contiguous" THEN NumGroups ELSE 1)
    IN ((b * bcall.nc + c) * L) .. ((b * bcall.nc + c + 1) * L - 1)

\* C5: in every batched planner the task of (b, c) writes only inside its own
\* block, so that the writes of two tasks are disjoint and no task writes
\* outside the output buffer (a copy that leaves the buffer has status "UB").
C5_WritesInOwnBlock ==
    \A n \in 1 .. Len(spawned) :
        /\ spawned[n].st.written \subseteq BlockOf(spawned[n].i, spawned[n].c)
        /\ spawned[n].st.written \subseteq 0 .. (Len(flattened) - 1)
        /\ spawned[n].st.status # "UB"
        /\ \A m \in 1 .. Len(spawned) :
              m # n => spawned[n].st.written \cap spawned[m].st.written = {}

C5_Witness ==
    \E n \in 1 .. Len(spawned) : \E m \in 1 .. Len(spawned) :
        /\ spawned[n].pc = "running" /\ spawned[n].st.written # {}
        /\ spawned[m].pc = "finished" /\ spawned[m].st.status = "Panic"
        /\ spawned[m].st.written # {}
        /\ Len(At(batch.columns, spawned[m].i)) > Len(At(batch.columns, 0))

\* The call run with its tasks one after the other in spawn order.
RECURSIVE SerialRun(_, _, _, _)
SerialRun(n, flat, getters, tasks) ==
    IF n > Len(tasks) THEN [flattened |-> flat, tasks |-> tasks]
    ELSE LET t == tasks[n]
             st == column_contiguous(task_query(batch, bcall, t), At(batch.stores, t.c),
                                     At(batch.columns, t.i),
                                     task_data_getter(batch, bcall, t.c),
                                     task_slice(batch, bcall, t, flat),
                                     PlanState(flat, getters[t.i + 1]))
         IN SerialRun(n + 1, st.flattened, [getters EXCEPT ![t.i + 1] = st.cache],
                      [tasks EXCEPT ![n].st = st, ![n].pc = "finished"])

SerialResult ==
    LET run == SerialRun(1, Zeros(Len(flattened)), [b \in 1 .. Len(batch.columns) |-> <<>>],
                         spawn(batch, bcall))
    IN [status |-> IF \E n \in 1 .. Len(run.tasks) : run.tasks[n].st.status = "Panic" THEN "Panic"
                   ELSE IF \E n \in 1 .. Len(run.tasks) : run.tasks[n].st.status = "Err" THEN "Err"
                   ELSE "Ok",
        flattened |-> run.flattened]

\* C6: a batched planner returns the same outcome and the same buffer
\* whatever the schedule of its tasks and whatever num_threads: every run
\* agrees with the run that executes the tasks one by one in spawn order.
C6_Deterministic ==
    driver.pc = "done"
    => /\ driver.status = SerialResult.status
       /\ (driver.status = "Ok" => flattened = SerialResult.flattened)

\* C7: a batched planner returns Ok exactly when every spawned task returned
\* Ok; when a task returned Err (and none panicked, in which case the scope
\* re-raises the panic) it returns the first Err of the result channel; and
\* the channel is drained only after every spawned task has finished.
C7_ResultPropagation ==
    driver.pc = "done"
    => /\ scope_closed(spawned)
       /\ (driver.status = "Ok") = (\A n \in 1 .. Len(spawned) : spawned[n].st.status = "Ok")
       /\ (driver.status = "Panic") = (\E n \in 1 .. Len(spawned) : spawned[n].st.status = "Panic")
       /\ (\E n \in 1 .. Len(spawned) : spawned[n].st.status = "Err") => driver.status # "Ok"
       /\ ((\E n \in 1 .. Len(spawned) : spawned[n].st.status = "Err") /\ driver.status # "Panic")
          => /\ driver.status = "Err"
             /\ \E k \in 1 .. Len(channel) :
                   /\ channel[k].status = "Err" /\ driver.err = channel[k].err
                   /\ \A m \in 1 .. (k - 1) : channel[m].status = "Ok"
                   /\ \E n \in 1 .. Len(spawned) :
                         /\ spawned[n].i = channel[k].i /\ spawned[n].c = channel[k].c
                         /\ spawned[n].st.status = "Err" /\ spawned[n].st.err = channel[k].err

C7_Witness ==
    /\ driver.pc = "done" /\ driver.status = "Err"
    /\ Len(channel) = 2
    /\ channel[1].status = "Ok" /\ channel[2].status = "Err"
    /\ bcall.num_threads = 2

\* ------------------------------------------------------ RedisClient: claims
\* C10: whatever resets came before, succeeding or failing, warmed_up = true
\* implies that the pool is present and every slot holds a connection.
C10_WarmedUpPoolFull ==
    client.warmed_up
    => /\ client.conn_pool.some
       /\ \A k \in 1 .. Len(client.conn_pool.slots) : client.conn_pool.slots[k]

\* C11: whenever reset returns Ok, with either reconnect flag and after any
\* earlier resets (failed ones included), the client is warmed up, so that a
\* following fetch does not panic with "should call `reset` before `fetch`".
C11_ResetOkWarmsUp ==
    (redis_ret.op = "reset" /\ redis_ret.status = "Ok") => client.warmed_up

\* The scan order of a pool of n slots from cursor c: slot (c + i) mod n at
\* step i; Scanned is the number of steps before the first slot outside
\* `held`, n when every slot is held.
ScanSlot(c, n, i) == (c + i) % n
Scanned(c, n, held) ==
    IF \A i \in 0 .. (n - 1) : ScanSlot(c, n, i) \in held THEN n
    ELSE CHOOSE i \in 0 .. (n - 1) :
            /\ ScanSlot(c, n, i) \notin held
            /\ \A j \in 0 .. (i - 1) : ScanSlot(c, n, j) \in held
PoolLen == Len(client.conn_pool.slots)
Rolled(t) == t \in DOMAIN fetchers /\ fetchers[t].pc = "idle" /\ fetchers'[t].pc = "lock"

\* C12: roll_pool_idx called with cursor c on a pool of n >= 1 slots returns
\* the first slot in the order c, c+1, ..., c+n-1 (mod n) that is not held
\* when probed and sets the cursor to that slot + 1 (mod n); when every slot
\* is held it returns the cursor c, which is then a slot of the pool.
C12_NextSlot ==
    [][\A t \in 1 .. MaxFetchers :
          Rolled(t)
          => LET k == Scanned(client.cursor, PoolLen, Locked)
             IN /\ PoolLen >= 1 /\ fetchers'[t].idx < PoolLen
                /\ k < PoolLen => /\ fetchers'[t].idx = ScanSlot(client.cursor, PoolLen, k)
                                  /\ client'.cursor = (fetchers'[t].idx + 1) % PoolLen
                /\ k = PoolLen => fetchers'[t].idx = client.cursor]_vars

\* A fetch whose scan passed over a held connection and took the next one.
C12_Witness ==
    \E t \in DOMAIN fetchers :
       /\ fetchers[t].pc = "lock" /\ fetchers[t].i = 1 /\ PoolLen = 2
       /\ \E u \in DOMAIN fetchers : fetchers[u].pc = "getrange" /\ fetchers[u].idx # fetchers[t].idx

NoContention == \A u \in DOMAIN fetchers : fetchers[u].pc = "idle"
BadArguments(r) == Len(r.req.starts) # Len(r.req.ends)

\* C13: fetches issued one after another on a warmed-up client with n pool
\* slots take the slots in turn: a fetch that starts with cursor c while no
\* other is in flight uses slot c mod n and leaves the cursor at c + 1 (mod
\* n), so the k-th fetch uses slot (c0 + k) mod n and n consecutive fetches
\* use every slot once.
C13_RoundRobin ==
    [][\A t \in 1 .. MaxFetchers :
          (t \in DOMAIN fetchers /\ NoContention /\ client.warmed_up /\ PoolLen >= 1 /\ FetchRoll(t))
          => IF fetchers'[t].pc = "lock"
             THEN /\ fetchers'[t].idx = client.cursor % PoolLen
                  /\ client'.cursor = (client.cursor + 1) % PoolLen
             ELSE BadArguments(redis_ret')]_vars

\* The reply of the server has exactly the requested lengths.
ExactReply(r) ==
    IF r.op = "fetch"
    THEN Len(r.rv) = r.req.ends[1] - r.req.starts[1]
    ELSE /\ Len(r.rv) = Len(r.req.starts)
         /\ \A i \in 1 .. Len(r.rv) : Len(r.rv[i]) = r.req.ends[i] - r.req.starts[i]

\* C14: fetch returns Ok only if the server returned exactly end - start
\* bytes, batch_fetch only if it received one string per range, the i-th of
\* length end_i - start_i; for every other reply the call returns the error
\* "fetched data is not enough" and no data.
C14_DataShort ==
    redis_ret.op \in {"fetch", "batch_fetch"}
    => /\ redis_ret.status = "Ok" => redis_ret.replied /\ ExactReply(redis_ret)
       /\ (redis_ret.replied /\ ~ExactReply(redis_ret))
          => /\ redis_ret.status = "Err"
             /\ redis_ret.err = "fetched data is not enough"
             /\ redis_ret.data = <<>>

\* A batch_fetch of two ranges answered by two strings, the second too short.
C14_Witness ==
    /\ redis_ret.op = "batch_fetch" /\ redis_ret.replied
    /\ Len(redis_ret.req.starts) = 2 /\ Len(redis_ret.rv) = 2
    /\ Len(redis_ret.rv[1]) = redis_ret.req.ends[1] - redis_ret.req.starts[1]
    /\ Len(redis_ret.rv[2]) < redis_ret.req.ends[2] - redis_ret.req.starts[2]
    /\ redis_ret.status = "Err"

\* ------------------------------------------------------ Fetcher::fetch: claims
\* C15: for a fetcher whose can_batch_fetch is true and which has the trait's
\* fetch, fetch(args) returns Ok(x) whenever batch_fetch([args]) returns
\* Ok([x]), returns the "empty result" error only when batch_fetch returned
\* an empty list, and returns batch_fetch's error otherwise.
C15_DefaultFetch ==
    fetch_ret.status \notin {"None", "Off"}
    => /\ (fetch_ret.rv.status = "Ok" /\ Len(fetch_ret.rv.data) = 1)
          => (fetch_ret.status = "Ok" /\ fetch_ret.data = fetch_ret.rv.data[1])
       /\ fetch_ret.err = "empty result" => (fetch_ret.rv.status = "Ok" /\ fetch_ret.rv.data = <<>>)
       /\ fetch_ret.rv.status = "Err" => (fetch_ret.status = "Err" /\ fetch_ret.err = "batch_fetch")

\* ------------------------------------------------ batch_fetch batches: claims
\* The batches a task has passed to its fetcher's batch_fetch, in order.
BatchesOf(n) == spawned[n].st.batches

\* C16: every batch that column_contiguous passes to the batch_fetch of a
\* batch-capable fetcher is non-empty and holds FetcherArgs of one day and of
\* the task's channel, the batches come in day order with one batch per
\* day, and under redis_column_contiguous c is never None, so that
\* RedisFetcher::batch_fetch does not panic on the batch.
C16_BatchesSingleKey ==
    \A n \in 1 .. Len(spawned) :
       \A k \in 1 .. Len(BatchesOf(n)) :
          LET b == BatchesOf(n)[k]
          IN /\ b # <<>>
             /\ \A a \in 1 .. Len(b) :
                   /\ b[a].c # None /\ b[a].c = spawned[n].c
                   /\ b[a].date_idx = b[1].date_idx
             /\ k > 1 => BatchesOf(n)[k - 1][1].date_idx < b[1].date_idx
             /\ RedisFetcher_batch_fetch(task_data_getter(batch, bcall, spawned[n].c), b).status # "Panic"

\* A task of redis_column_contiguous that has fetched two days, the first
\* with a batch of two columns.
C16_Witness ==
    /\ bcall.op = "redis_column_contiguous"
    /\ \E n \in 1 .. Len(spawned) :
          /\ spawned[n].pc = "finished" /\ spawned[n].st.status = "Ok"
          /\ Len(BatchesOf(n)) = 2 /\ Len(BatchesOf(n)[1]) = 2

\* ---------------------------------------------------- CachedGetter: claims
\* The day's columns that a running task passes to the getter of its row, and
\* what the getter returns to it from the cache as it stands.
GetColumnsOf(n) ==
    At(task_context(batch, bcall, spawned[n], flattened).columns_per_day, spawned[n].day)
GetOf(n) ==
    CachedGetter_get(columns_indices_getters[spawned[n].i + 1], At(batch.columns, spawned[n].i),
                     spawned[n].day, GetColumnsOf(n))

\* C17: CachedGetter::get(i, day_columns) returns batch_searchsorted(
\* day_columns, columns), the position in day_columns of every column of the
\* query, for every call of every task that shares the getter, on a hit of
\* the cache as on a miss.
C17_CachedGetterGet ==
    \A n \in 1 .. Len(spawned) :
       spawned[n].pc = "running"
       => GetOf(n).indices = batch_searchsorted(GetColumnsOf(n), At(batch.columns, spawned[n].i))

\* ------------------------------------------------------ AsyncQueue: claims
\* The jobs submitted with a cursor since the last reset, and the last of them.
JobsOf(cursor) == {j \in 1 .. Len(jobs) : jobs[j].cursor = cursor /\ jobs[j].epoch = caller.resets}
LastJobOf(cursor) == CHOOSE j \in JobsOf(cursor) : \A k \in JobsOf(cursor) : k <= j
EverSubmitted(cursor) == \E j \in 1 .. Len(jobs) : jobs[j].cursor = cursor

\* C18: once the job of submit(cursor, data) has finished, with no reset in
\* between, the first pop(cursor) returns Some(worker.process(cursor, data))
\* and removes it, and every later pop(cursor) returns None until the cursor
\* is submitted again; pop returns None for a cursor whose job has not
\* finished or that was never submitted.
C18_PopOnce ==
    [][\A cursor \in 0 .. MaxCursor :
          Pop(cursor)
          => /\ cursor \notin DOMAIN results'
             /\ (cursor \in caller.outstanding /\ jobs[LastJobOf(cursor)].pc = "done")
                => /\ queue_ret'.some
                   /\ queue_ret'.value = Worker_process(cursor, jobs[LastJobOf(cursor)].data)
             /\ (cursor \in caller.outstanding /\ jobs[LastJobOf(cursor)].pc # "done")
                => ~queue_ret'.some
             /\ (cursor \notin caller.outstanding /\ (JobsOf(cursor) # {} \/ ~EverSubmitted(cursor)))
                => ~queue_ret'.some]_vars

\* The job that put a result into results.
JobOfResult(r) == r.out - 100

\* C20: after reset has cleared results, no job submitted before that reset
\* inserts into results: every entry of results comes from a job submitted
\* after the last reset, so that pop returns Some only for such a job.
C20_NoStaleResults ==
    \A cursor \in DOMAIN results : jobs[JobOfResult(results[cursor])].epoch = caller.resets

\* C19: reset(block_after_abort), in both modes and whatever the state of
\* the pending jobs, aborts every handle that was pending, returns Ok and
\* leaves pending empty; with block_after_abort = true every such job has
\* ended (completed or cancelled) when reset returns.
C19_ResetAbortsAll ==
    (queue_ret.op = "reset" /\ queue_ret.status # "Running")
    => /\ queue_ret.status = "Ok"
       /\ pending = <<>>
       /\ queue_ret.aborted = {queue_ret.handles[k] : k \in 1 .. Len(queue_ret.handles)}
       /\ queue_ret.block => \A h \in queue_ret.aborted : jobs[h].pc \in {"done", "cancelled"}

\* The job with serial number j has just been submitted (no reset since);
\* its result is in results under its cursor; reset has been called since
\* its submit.
Submitted(j) == j <= Len(jobs) /\ jobs[j].pc = "spawned" /\ caller.resets = jobs[j].epoch
Available(j) == jobs[j].cursor \in DOMAIN results /\ results[jobs[j].cursor] = Worker_process(jobs[j].cursor, jobs[j].data)
ResetSince(j) == caller.resets > jobs[j].epoch

\* C21: every job submitted with submit(cursor, data) is eventually processed
\* and its result becomes available to pop(cursor), unless reset is called,
\* for every num_threads >= 1 and with no further call of the caller.
C21_EventuallyProcessed ==
    \A j \in 1 .. MaxJobs : Submitted(j) ~> (j <= Len(jobs) /\ (Available(j) \/ ResetSince(j)))

\* The same property for the queues built on a multi-thread runtime.
C21_MultiThread ==
    \A j \in 1 .. MaxJobs :
        (Submitted(j) /\ num_threads_rt >= 2) ~> (j <= Len(jobs) /\ (Available(j) \/ ResetSince(j)))

\* The decoder returned the frame that was encoded, element-wise, and
\* consumed exactly the bytes the encoder produced.
EncodedLen == 16 + 8 * Len(df.index) + COLUMNS_NBYTES * Len(df.columns) + df.size * (Len(df.index) * Len(df.columns))
RoundTrip ==
    /\ decoded.status = "Ok"
    /\ decoded.df.index = df.index /\ decoded.df.columns = df.columns /\ decoded.df.values = df.values
    /\ decoded.consumed = Len(encoded.bytes)
    /\ Len(encoded.bytes) = EncodedLen

C22_LoadFrom == decoded.by = "load_from" => RoundTrip
C22_FromBufferAligned ==
    (decoded.by = "from_buffer" /\ (df.size * (Len(df.index) * Len(df.columns))) % DF_ALIGN = 0) => RoundTrip

\* Fetcher t has returned from roll_pool_idx and is about to lock slot idx;
\* its scan found that slot uncontended (it stopped before the pool's end).
AboutToLock(t) == fetchers[t].pc = "lock" /\ fetchers[t].idx < PoolLen
FoundUncontended(t) == fetchers[t].i < PoolLen

\* C23: a fetch whose scan found slot s uncontended acquires s without
\* blocking; a fetch blocks on a slot's lock only when its scan found every
\* slot of the pool contended.
C23_NoBlockingAfterProbe ==
    \A t \in DOMAIN fetchers :
        (AboutToLock(t) /\ FoundUncontended(t)) => fetchers[t].idx \notin Locked

\* The particular case: no fetch waits on a held slot while another slot of
\* the pool is free.
C23_NoWaitBesideFreeSlot ==
    \A t \in DOMAIN fetchers :
        (AboutToLock(t) /\ fetchers[t].idx \in Locked) => \A s \in 0 .. (PoolLen - 1) : s \in Locked

\* A call is in flight for fetcher t; t holds the connection of slot s.
InFlight(t) == fetchers[t].pc # "idle"
Holds(t, s) == fetchers[t].pc = "getrange" /\ fetchers[t].idx = s

\* C24: under any interleaving of concurrent fetch and batch_fetch calls on
\* one client, at most one call at a time issues a command on a pooled
\* connection; the cursor is read and advanced in one step under its lock (a
\* cursor change is the roll of one caller, to the slot after the one that
\* caller got); the holder of the cursor lock never waits for a slot (a call
\* can always pass roll_pool_idx, whatever slots are held); and the two locks
\* cannot deadlock: while a call is in flight some call can take a step.
C24_LocksExclusiveNoDeadlock ==
    /\ [](\A t, u \in DOMAIN fetchers : \A s \in 0 .. (MaxPool - 1) : (Holds(t, s) /\ Holds(u, s)) => t = u)
    /\ [](\A t \in DOMAIN fetchers : (~InFlight(t) /\ ops < MaxOps) => ENABLED FetchRoll(t))
    /\ []((\E t \in DOMAIN fetchers : InFlight(t)) => \E t \in DOMAIN fetchers : ENABLED (FetchLock(t) \/ FetchReturn(t)))
    /\ [][client.cursor' # client.cursor =>
            /\ Cardinality({t \in DOMAIN fetchers : Rolled(t)}) = 1
            /\ \A t \in DOMAIN fetchers : Rolled(t) => client.cursor' = (fetchers'[t].idx + 1) % PoolLen]_vars

\* One caller issues its command on a connection while another, which
\* rolled the same slot, is blocked on the lock of that slot.
C24_Witness ==
    \E t, u \in DOMAIN fetchers :
        /\ Holds(t, fetchers[u].idx)
        /\ fetchers[u].pc = "lock"
        /\ ~ENABLED FetchLock(u)

\* The client is as successful resets with pool_size >= 1 leave it: warmed
\* up, its cursor lock not poisoned, a connection in every slot of a pool of
\* at least one slot.
ResetsSucceeded ==
    /\ client.warmed_up /\ ~client.poisoned /\ client.conn_pool.some
    /\ PoolLen >= 1
    /\ \A s \in 0 .. (PoolLen - 1) : At(client.conn_pool.slots, s)

\* C25: after successful resets with pool_size >= 1, a reconnect to a smaller
\* pool under an old cursor included, and under any interleaving of fetches,
\* every index roll_pool_idx returns is in [0, pool size): no fetch indexes
\* outside the pool.
C25_SlotIndexInPool ==
    /\ [][\A t \in DOMAIN fetchers : (Rolled(t) /\ ResetsSucceeded) => fetchers'[t].idx \in 0 .. (PoolLen - 1)]_vars
    /\ [](\A t \in DOMAIN fetchers : (InFlight(t) /\ ResetsSucceeded) => fetchers[t].idx \in 0 .. (PoolLen - 1))

\* The fallback: a call whose scan found every slot contended and was given
\* the cursor's slot.
C25_Witness ==
    \E t \in DOMAIN fetchers : ResetsSucceeded /\ fetchers[t].pc = "lock" /\ fetchers[t].i = PoolLen

\* The pool was replaced by a smaller one and the cursor kept its value.
C25_StaleCursor == ResetsSucceeded /\ client.cursor >= PoolLen

\* ------------------------------------------------------ planners: more claims
\* C26: the planners accept a query only if full_index[time_start_idx] =
\* datetime_start and full_index[time_start_idx + datetime_len - 1] =
\* datetime_end; a query whose datetime_start is not an element of full_index
\* (and whose range ends inside the index) is rejected with
\* IndexDiscontinuous.
C26_BothEndsChecked ==
    LET time_end_idx == searchsorted(store.full_index, query.datetime_start) + query.datetime_len - 1
    IN /\ (Called /\ ret.status = "Ok") => TripleConsistent
       /\ (Called /\ ~Has(store.full_index, query.datetime_start) /\ time_end_idx < Len(store.full_index))
             => (ret.status = "Err" /\ ret.err = "IndexDiscontinuous")

\* The end of the triple alone: an accepted query has datetime_end at
\* time_start_idx + datetime_len - 1.
C26_EndChecked ==
    (Called /\ ret.status = "Ok")
       => At(store.full_index, searchsorted(store.full_index, query.datetime_start) + query.datetime_len - 1)
             = query.datetime_end

\* The window of day d the claim names: from the query's first tick on the
\* first day, to its last tick on the last day, the whole day otherwise.
WindowStart(d) ==
    IF d = DateOf(0) THEN TimeIdx(0) % store.num_ticks_per_day ELSE 0
WindowEnd(d) ==
    LET e == (TimeIdx(query.datetime_len - 1) + 1) % store.num_ticks_per_day
    IN IF d = DateOf(query.datetime_len - 1) /\ e # 0 THEN e ELSE store.num_ticks_per_day
ByColumnContiguous == call.op \in {"shm_column_contiguous", "shm_sliced_column_contiguous", "column_contiguous"}

\* C27: every FetcherArgs column_contiguous emits for a valid query has
\* data_len = end_idx - start_idx = time_end_idx - time_start_idx in
\* 1..num_ticks_per_day; time_start_idx = date_col_idx * num_ticks_per_day +
\* the first tick of the day's window; start_idx - time_start_idx =
\* date_columns_offset[date_idx] * num_ticks_per_day; the window of a day is
\* the one named above and holds exactly the query's ticks of that day, so
\* the windows of a column sum to datetime_len.
C27_FetcherArgsShape ==
    (ByColumnContiguous /\ TripleConsistent /\ query.datetime_len >= 1)
       => /\ \A n \in 1 .. Len(ret.emitted) :
                LET a == ret.emitted[n]
                    T == store.num_ticks_per_day
                IN /\ a.data_len = a.end_idx - a.start_idx
                   /\ a.data_len = a.time_end_idx - a.time_start_idx
                   /\ 1 <= a.data_len /\ a.data_len <= T
                   /\ a.num_ticks_per_day = T
                   /\ a.date_idx \in DaysOfQuery
                   /\ a.time_start_idx = a.date_col_idx * T + WindowStart(a.date_idx)
                   /\ a.time_end_idx = a.date_col_idx * T + WindowEnd(a.date_idx)
                   /\ a.start_idx - a.time_start_idx = At(store.date_columns_offset, a.date_idx) * T
                   /\ a.data_len = TicksOfDay(a.date_idx)
          /\ SeqSum([n \in 1 .. Cardinality(DaysOfQuery) |->
                        WindowEnd(DateOf(0) + n - 1) - WindowStart(DateOf(0) + n - 1)]) = query.datetime_len

\* A query over a first day entered at its second tick, a whole middle day
\* and a last day left after its first tick, every column present.
C27_Witness ==
    /\ call.op = "shm_column_contiguous" /\ TripleConsistent /\ ret.status = "Ok"
    /\ Cardinality(DaysOfQuery) = 3
    /\ WindowStart(DateOf(0)) = 1
    /\ WindowEnd(DateOf(query.datetime_len - 1)) = 1
    /\ store.num_ticks_per_day = 2
    /\ Len(ret.emitted) >= 3

\* ------------------------------------ redis_grouped_column_contiguous: claims
\* m_0 + ... + m_{g-1}
PrefixSum(multipliers, g) == SeqSum(SubSeq(multipliers, 1, g))

\* The output indices b*L + (j*datetime_len + t)*nc + ch of the columns
\* [column_start, column_end) and of the channels [ch_start, ch_end) in block b.
GroupedCells(b, column_start, column_end, ch_start, ch_end) ==
    LET L == Len(batch.columns[1]) * batch.datetime_len * bcall.nc
    IN {b * L + (j * batch.datetime_len + t) * bcall.nc + ch :
            j \in column_start .. (column_end - 1), t \in 0 .. (batch.datetime_len - 1),
            ch \in ch_start .. (ch_end - 1)}

\* The indices of the group and of the chunk of task n.
OwnedCells(n) ==
    LET t == spawned[n]
        pad == PrefixSum(bcall.multiplier, t.c)
    IN GroupedCells(t.i, t.column_start, t.column_end, pad, pad + At(bcall.multiplier, t.c))

\* C28: in redis_grouped_column_contiguous the column chunks of the tasks of
\* a row and a group partition [0, |columns|); the task of group g runs with
\* channel_pad_start = m_0 + ... + m_{g-1} and with channel_pad_start + m_g +
\* channel_pad_end = nc; a task writes only output indices of its group's
\* channels and its chunk's columns, and once the call has returned Ok every
\* output index has been written by exactly one task, the owner of its
\* channel and column, for real data and NaN fills alike.
C28_GroupedWritesPartition ==
    (bcall.op = "redis_grouped_column_contiguous" /\ spawned # <<>>)
    => LET num_columns == Len(batch.columns[1])
           tasks == 1 .. Len(spawned)
       IN /\ \A b \in 0 .. (Len(batch.datetime_start) - 1) :
             \A g \in 0 .. (Len(bcall.multiplier) - 1) :
             \A j \in 0 .. (num_columns - 1) :
                Cardinality({n \in tasks : /\ spawned[n].i = b /\ spawned[n].c = g
                                           /\ spawned[n].column_start <= j
                                           /\ j < spawned[n].column_end}) = 1
          /\ \A n \in tasks :
                /\ 0 <= spawned[n].column_start /\ spawned[n].column_start < spawned[n].column_end
                /\ spawned[n].column_end <= num_columns
                /\ spawned[n].offsets.channel_pad_start = PrefixSum(bcall.multiplier, spawned[n].c)
                /\ spawned[n].offsets.channel_pad_start + At(bcall.multiplier, spawned[n].c)
                      + spawned[n].offsets.channel_pad_end = bcall.nc
                /\ spawned[n].st.status # "UB"
                /\ spawned[n].st.written \subseteq OwnedCells(n)
          /\ (driver.pc = "done" /\ driver.status = "Ok")
             => \A x \in 0 .. (Len(flattened) - 1) :
                   /\ Cardinality({n \in tasks : x \in spawned[n].st.written}) = 1
                   /\ \A n \in tasks : x \in spawned[n].st.written <=> x \in OwnedCells(n)

\* A call with two groups of different multipliers and two column chunks has
\* returned Ok, and one of its tasks has written both fetched data and NaN.
C28_Witness ==
    /\ bcall.op = "redis_grouped_column_contiguous"
    /\ driver.pc = "done" /\ driver.status = "Ok"
    /\ Len(bcall.multiplier) = 2 /\ bcall.multiplier[1] # bcall.multiplier[2]
    /\ Len(spawned) = 4
    /\ \E n \in 1 .. Len(spawned) :
          /\ spawned[n].c = 1 /\ spawned[n].n = 1
          /\ \E k \in 1 .. Len(spawned[n].st.fills) : spawned[n].st.fills[k].kind = "nan"
          /\ \E k \in 1 .. Len(spawned[n].st.fills) : spawned[n].st.fills[k].kind = "data"

\* ------------------------------------------- async_column_contiguous: claims
\* The state of the async planner of the current query when it reaches its
\* await: the day loop has run, no future has been awaited.
AsyncAtAwait ==
    LET q == PlannerQuery(query, None, None, NoOffsets)
        zeros == Zeros(query.datetime_len * Len(query.columns))
        ctx == context(q, store, preamble(q, store), FallibleFetcher_new(store.compact_data, call.fails),
                       WholeSlice(zeros), query.columns)
    IN async_day_loop(ctx, PlanState(zeros, <<>>), 0)

FillsOfKind(fills, kind) == SelectSeq(fills, LAMBDA f : f.kind = kind)

\* C29: in async_column_contiguous every NaN fill is written before the
\* await and no fetched slice is: the buffer at the await holds the NaN
\* fills of the call and nothing else. Fetched data is written after the
\* await and only if every future succeeded: a call with a failing fetch
\* returns Err with the buffer as it was at the await, and a call that
\* returns Ok has written one slice per future after the NaN fills.
C29_NaNBeforeAwaitDataAfter ==
    (/\ call.op = "async_column_contiguous"
     /\ preamble(PlannerQuery(query, None, None, NoOffsets), store).status = "Ok"
     /\ AsyncAtAwait.status = "Ok")
    => LET at == AsyncAtAwait
           nans == FillsOfKind(ret.fills, "nan")
           datas == FillsOfKind(ret.fills, "data")
           failing == \E n \in 1 .. Len(at.tasks) :
                         <<at.tasks[n].date_idx, at.tasks[n].date_col_idx>> \in call.fails
       IN /\ at.fills = nans /\ FillsOfKind(at.fills, "data") = <<>>
          /\ ret.fills = nans \o datas
          /\ \A x \in 1 .. Len(at.flattened) :
                at.flattened[x] = (IF x - 1 \in at.written THEN NaN ELSE Zero)
          /\ ret.emitted = at.tasks
          /\ failing => /\ ret.status = "Err" /\ ret.err = "Fetch"
                        /\ datas = <<>>
                        /\ ret.flattened = at.flattened /\ ret.written = at.written
          /\ ~failing => /\ ret.status = "Ok"
                         /\ Len(datas) = Len(at.tasks)
                         /\ \A x \in at.written : ret.flattened[x + 1] = NaN

\* A call whose second future fails while the first succeeds, after a NaN
\* fill: it returned Err and the output holds the NaN fill only.
C29_Witness ==
    /\ call.op = "async_column_contiguous"
    /\ ret.status = "Err" /\ ret.err = "Fetch"
    /\ Len(ret.emitted) >= 2
    /\ <<ret.emitted[1].date_idx, ret.emitted[1].date_col_idx>> \notin call.fails
    /\ \E n \in 1 .. Len(ret.fills) : ret.fills[n].kind = "nan"
    /\ ret.written # {}

\* ------------------------------------------- batched planners: termination
\* The scope of the call has returned: every spawned task has finished and
\* none has panicked (the scope re-raises the panic of a task), so every
\* clone of the sender has been dropped and the driver drains the channel.
ScopeReturned ==
    /\ driver.pc \in {"scope", "done"} /\ spawned # <<>> /\ scope_closed(spawned)
    /\ \A n \in 1 .. Len(spawned) : spawned[n].st.status \in {"Ok", "Err"}

\* The messages of the channel that task n sent.
MessagesOf(n) ==
    {k \in 1 .. Len(channel) : channel[k].i = spawned[n].i /\ channel[k].c = spawned[n].c}

\* The steps a call has left at most: a queued task starts and runs its days
\* (a query spans at most MaxDays + 1 days here), then the driver drains.
StepsLeft(n) ==
    CASE spawned[n].pc = "finished" -> 0
      [] spawned[n].pc = "running" -> MaxDays + 2 - spawned[n].day
      [] OTHER -> MaxDays + 3

Rank == SeqSum([n \in 1 .. Len(spawned) |-> StepsLeft(n)]) + (IF driver.pc = "scope" THEN 1 ELSE 0)

\* C30: every call of a batched planner ends under FairBatch: while the call
\* is in its scope the guard of a worker's step or of the drain holds (a task
\* runs, a queued task has a free worker, or every task has finished) and
\* every step lowers the number of steps left. Each spawned task sends one
\* result when it returns, Ok or Err, and none before, so that when the scope
\* has returned the channel holds exactly one message per spawned task (B*C
\* of them) and no sender is left; the drain then ends with Ok or with an
\* Err, also when a task returned Err.
C30_BatchedCallReturns ==
    /\ [](driver.pc = "scope"
            => /\ Rank > 0
               /\ \/ scope_closed(spawned)
                  \/ \E n \in 1 .. Len(spawned) : spawned[n].pc = "running"
                  \/ /\ \E n \in 1 .. Len(spawned) : spawned[n].pc = "queued"
                     /\ Cardinality({m \in 1 .. Len(spawned) : spawned[m].pc = "running"}) < bcall.num_threads)
    /\ [][driver.pc = "scope" => (Rank' < Rank /\ Rank' >= 0)]_vars
    /\ [](\A n \in 1 .. Len(spawned) :
             Cardinality(MessagesOf(n)) =
                (IF spawned[n].pc = "finished" /\ spawned[n].st.status \in {"Ok", "Err"} THEN 1 ELSE 0))
    /\ [](ScopeReturned
            => /\ Len(channel) = Len(spawned)
               /\ Len(channel) = Len(batch.datetime_start) * bcall.nc
               /\ driver.pc = "done" => driver.status \in {"Ok", "Err"})
    /\ []((driver.pc = "done" /\ ~ScopeReturned) => driver.status = "Panic")

\* A call of two tasks has returned Err: one task sent Ok and the other Err.
C30_Witness ==
    /\ driver.pc = "done" /\ driver.status = "Err"
    /\ ScopeReturned /\ Len(spawned) = 2 /\ Len(channel) = 2
    /\ \E k \in 1 .. 2 : channel[k].status = "Ok"
    /\ \E k \in 1 .. 2 : channel[k].status = "Err"

\* The same count without the condition on panics: every finished task has
\* sent a message.
C30_OneMessagePerFinishedTask ==
    (\A n \in 1 .. Len(spawned) : spawned[n].pc = "finished") => Len(channel) = Len(spawned)

====
